---- MODULE Spec2Model ----
(***************************************************************************)
(* A model of the rumq broker's router (rumq-broker/src/router/mod.rs),    *)
(* its commit log (router/commitlog.rs) and its per-connection             *)
(* subscription index (router/connection.rs).                              *)
(*                                                                         *)
(* Topic names and filters are sequences of levels: a/b is <<"a", "b">>.   *)
(* A publish is a record; its field n is the number of the publish in the  *)
(* order the router received it, which stands for its payload's identity.  *)
(***************************************************************************)
EXTENDS Integers, Sequences, FiniteSets, TLC

VARIABLES
    partitions,            \* CommitLog.partitions: topic -> sequence of segments
    current_segment_id,    \* CommitLog.current_segment_id
    active_connections,    \* Router.active_connections: id -> ActiveConnection
    inactive_connections,  \* Router.inactive_connections: id -> InactiveConnection
    outbound,              \* the channel behind the tx of each id's latest connection
    delivered,             \* history: the publishes placed on that channel, in order
    owed,                  \* history: the publishes appended since id's latest Subscribe
                           \*          on topics matching a filter id holds
    session,               \* history: what a stored session held and missed
    npublishes,            \* number of publishes the router has received
    nconnects,             \* number of Connect messages the router has received
    subscribes,            \* history: the Subscribe packets of each id's latest connection
    last,                  \* history: the router step taken last
    router_rs,             \* the Router of router.rs, the router with retained publishes
    codec                  \* mqtt5bytes: the last call of the codec, its buffer and result

vars == <<partitions, current_segment_id, active_connections,
          inactive_connections, outbound, delivered, owed, session,
          npublishes, nconnects, subscribes, last, router_rs, codec>>

\* The variables of the router of router/mod.rs.
router_vars == <<partitions, current_segment_id, active_connections,
                 inactive_connections, outbound, delivered, owed, session,
                 npublishes, nconnects, subscribes, last>>

(***************************************************************************)
(* Bounds of the model.                                                    *)
(***************************************************************************)
MaxSegmentSize == 2
SegmentsPerPartition == 3
BatchCount == 2
ChannelCapacity == 1
MaxPublishes == 4
MaxSessionPublishes == 2
MaxConnects == 3
MaxFanOutConnects == 2
MaxSubscribes == 2
MaxCoverSubscribes == 3
MaxRetainedPublishes == 3
MaxLogPublishes == 5
MaxDecodeLen == 5
MaxPayloadSize == 1024
LongPayloadLen == 121
RetainedChannelCapacity == 2

ClientIds == {"c1", "c2"}
Topics == {<<"a", "b">>, <<"a", "c">>}
Filters == Topics \cup {<<"a", "+">>}
QoSLevels == {0, 1}

(***************************************************************************)
(* Option values.                                                          *)
(***************************************************************************)
NoWill == [present |-> FALSE, topic |-> <<>>, qos |-> 0]
Wills == {NoWill} \cup {[present |-> TRUE, topic |-> t, qos |-> 1] : t \in {<<"a", "c">>}}
NoMessages == [some |-> FALSE, segment_id |-> 0, log_offset |-> 0, packets |-> <<>>]

(***************************************************************************)
(* rumq_core::mqtt4 topic helpers.                                         *)
(***************************************************************************)
has_wildcards(filter) == \E i \in 1..Len(filter) : filter[i] \in {"+", "#"}

RECURSIVE matches(_, _)
matches(topic, filter) ==
    IF filter = <<>> THEN topic = <<>>
    ELSE IF Head(filter) = "#" THEN TRUE
    ELSE IF topic = <<>> THEN FALSE
    ELSE IF Head(filter) = "+" \/ Head(filter) = Head(topic)
         THEN matches(Tail(topic), Tail(filter))
    ELSE FALSE

(***************************************************************************)
(* Commit log: router/commitlog.rs                                         *)
(***************************************************************************)
NewSegment(id) == [id |-> id, current_size |-> 0, packets |-> <<>>]

\* Segment::fill: the segment after the push, and whether it reports full.
SegmentFill(segment, publish) ==
    LET s == [segment EXCEPT !.packets = Append(@, publish),
                             !.current_size = @ + publish.payload_len]
    IN  [segment |-> s, full |-> s.current_size >= MaxSegmentSize]

\* CommitLog::fill removing the segment it has just filled, not the first
\* one, when the partition is at its limit.
CommitLogFill_removing_last(log, publish) ==
    LET topic == publish.topic_name IN
    IF topic \in DOMAIN log.partitions
    THEN LET segments == log.partitions[topic]
             r == SegmentFill(segments[Len(segments)], publish)
             filled == [segments EXCEPT ![Len(segments)] = r.segment]
         IN  IF r.full
             THEN LET kept == IF Len(filled) >= SegmentsPerPartition
                              THEN SubSeq(filled, 1, Len(filled) - 1) ELSE filled
                      id == log.current_segment_id + 1
                  IN  [partitions |-> [log.partitions EXCEPT ![topic] = Append(kept, NewSegment(id))],
                       current_segment_id |-> id]
             ELSE [log EXCEPT !.partitions[topic] = filled]
    ELSE LET r == SegmentFill(NewSegment(0), publish)
         IN  [log EXCEPT !.partitions =
                [t \in DOMAIN log.partitions \cup {topic} |->
                    IF t = topic THEN <<r.segment>> ELSE log.partitions[t]]]

\* CommitLog::fill without the increment of current_segment_id: the segment
\* pushed takes the counter as it is.
CommitLogFill_reusing_id(log, publish) ==
    LET topic == publish.topic_name IN
    IF topic \in DOMAIN log.partitions
    THEN LET segments == log.partitions[topic]
             r == SegmentFill(segments[Len(segments)], publish)
             filled == [segments EXCEPT ![Len(segments)] = r.segment]
         IN  IF r.full
             THEN LET kept == IF Len(filled) >= SegmentsPerPartition
                              THEN Tail(filled) ELSE filled
                  IN  [log EXCEPT !.partitions[topic] =
                          Append(kept, NewSegment(log.current_segment_id))]
             ELSE [log EXCEPT !.partitions[topic] = filled]
    ELSE LET r == SegmentFill(NewSegment(0), publish)
         IN  [log EXCEPT !.partitions =
                [t \in DOMAIN log.partitions \cup {topic} |->
                    IF t = topic THEN <<r.segment>> ELSE log.partitions[t]]]

\* CommitLog::fill on the pair (partitions, current_segment_id).
CommitLogFill(log, publish) ==
    LET topic == publish.topic_name IN
    IF topic \in DOMAIN log.partitions
    THEN LET segments == log.partitions[topic]
             r == SegmentFill(segments[Len(segments)], publish)
             filled == [segments EXCEPT ![Len(segments)] = r.segment]
         IN  IF r.full
             THEN LET kept == IF Len(filled) >= SegmentsPerPartition
                              THEN Tail(filled) ELSE filled
                      id == log.current_segment_id + 1
                  IN  [partitions |-> [log.partitions EXCEPT ![topic] = Append(kept, NewSegment(id))],
                       current_segment_id |-> id]
             ELSE [log EXCEPT !.partitions[topic] = filled]
    ELSE LET r == SegmentFill(NewSegment(0), publish)
         IN  [log EXCEPT !.partitions =
                [t \in DOMAIN log.partitions \cup {topic} |->
                    IF t = topic THEN <<r.segment>> ELSE log.partitions[t]]]

Take(s, n) == SubSeq(s, 1, IF Len(s) < n THEN Len(s) ELSE n)

\* The loop of CommitLog::get over the segments from index i (1-based).
RECURSIVE GetLoop(_, _, _, _, _)
GetLoop(segments, i, log_offset, count, messages) ==
    IF i > Len(segments)
    THEN IF Len(messages.packets) > 0 THEN messages ELSE NoMessages
    ELSE LET segment == segments[i] IN
         IF log_offset >= Len(segment.packets)
         THEN GetLoop(segments, i + 1, 0, count, messages)
         ELSE LET o == Take(SubSeq(segment.packets, log_offset + 1, Len(segment.packets)), count)
                  m == [some |-> TRUE, segment_id |-> segment.id,
                        log_offset |-> log_offset + Len(o) - 1,
                        packets |-> messages.packets \o o]
              IN  IF Len(o) >= count THEN m
                  ELSE GetLoop(segments, i + 1, log_offset, count - Len(o), m)

\* CommitLog::get
CommitLogGet(parts, topic, segment_id, log_offset, count) ==
    IF topic \notin DOMAIN parts THEN NoMessages
    ELSE LET segments == parts[topic]
             segment_index == IF segments[1].id >= segment_id THEN 0
                              ELSE segment_id - segments[1].id
         IN  IF segment_index >= Len(segments) THEN NoMessages
             ELSE GetLoop(segments, segment_index + 1, log_offset, count, NoMessages)

(***************************************************************************)
(* Maps keyed by client id or by filter (HashMap).                         *)
(***************************************************************************)
EmptyMap == [x \in {} |-> 0]
MapRemove(m, k) == [x \in DOMAIN m \ {k} |-> m[x]]
MapInsert(m, k, v) == [x \in DOMAIN m \cup {k} |-> IF x = k THEN v ELSE m[x]]

\* The orders in which a HashMap with key set S may be iterated.
Orders(S) == {o \in [1..Cardinality(S) -> S] : \A i, j \in 1..Cardinality(S) : i # j => o[i] # o[j]}

(***************************************************************************)
(* The bounded outbound channel of a connection (tokio mpsc).              *)
(***************************************************************************)
NewChannel == [queue |-> <<>>, closed |-> FALSE]

\* Sender::try_send
try_send(chan, message) ==
    IF chan.closed THEN [result |-> "Closed", chan |-> chan]
    ELSE IF Len(chan.queue) >= ChannelCapacity THEN [result |-> "Full", chan |-> chan]
    ELSE [result |-> "Ok", chan |-> [chan EXCEPT !.queue = Append(@, message)]]

(***************************************************************************)
(* Router messages sent to a connection.                                   *)
(***************************************************************************)
Pending(queue) == [type |-> "Pending", packets |-> queue]
Packets(packets) == [type |-> "Packets", packets |-> packets]
Reply(kind) == [type |-> kind, packets |-> <<>>]
NoReply == [type |-> "None", packets |-> <<>>]

(***************************************************************************)
(* Session state and connections: router/connection.rs                     *)
(***************************************************************************)
\* MqttState::new
NewMqttState(clean_session, will) ==
    [clean_session |-> clean_session, will |-> will, outgoing_publishes |-> <<>>]

\* Subscription::new
NewSubscription(qos) == [qos |-> qos, offset |-> <<0, 0>>]

\* Subscription::update_offset
update_offset(subscription, segment_id, log_offset) ==
    [subscription EXCEPT !.offset = <<segment_id, log_offset>>]

\* ActiveConnection::new
NewActiveConnection(state) ==
    [state |-> state, concrete_subscriptions |-> EmptyMap, wild_subscriptions |-> EmptyMap]

\* InactiveConnection::new
NewInactiveConnection(state) == [state |-> state]

Max(a, b) == IF a > b THEN a ELSE b

RECURSIVE MaxQos(_, _, _)
MaxQos(subscriptions, keys, qos) ==
    IF keys = {} THEN qos
    ELSE LET k == CHOOSE k \in keys : TRUE
         IN  MaxQos(subscriptions, keys \ {k}, Max(qos, subscriptions[k].qos))

\* The existing wild filters that are wider than current_filter: the loop of
\* fix_overlapping_subscriptions leaves the one it visits last in `filter`.
WiderFilters(connection, current_filter) ==
    IF has_wildcards(current_filter)
    THEN {e \in DOMAIN connection.wild_subscriptions :
            ~matches(e, current_filter) /\ matches(current_filter, e)}
    ELSE {}

\* ActiveConnection::fix_overlapping_subscriptions without the raise of the
\* working qos: the subscription returned has the qos of the Subscribe.
fix_overlapping_subscriptions_keeping_qos(connection, current_filter, qos, last_wider) ==
    LET concrete == connection.concrete_subscriptions
        wild == connection.wild_subscriptions
        pruned_concrete == IF has_wildcards(current_filter)
                           THEN {e \in DOMAIN concrete : matches(e, current_filter)}
                           ELSE {}
        pruned_wild == IF has_wildcards(current_filter)
                       THEN {e \in DOMAIN wild : matches(e, current_filter) \/ matches(current_filter, e)}
                       ELSE {}
        prune_list == pruned_concrete \cup pruned_wild
        filter == IF WiderFilters(connection, current_filter) = {} THEN current_filter ELSE last_wider
    IN  IF prune_list # {}
        THEN [some |-> TRUE, filter |-> filter, subscription |-> NewSubscription(qos),
              connection |-> [connection EXCEPT
                  !.concrete_subscriptions = [f \in DOMAIN concrete \ prune_list |-> concrete[f]],
                  !.wild_subscriptions = [f \in DOMAIN wild \ prune_list |-> wild[f]]]]
        ELSE [some |-> FALSE, filter |-> current_filter, subscription |-> NewSubscription(qos),
              connection |-> connection]

\* ActiveConnection::fix_overlapping_subscriptions; last_wider is the wider
\* existing filter the iteration of wild_subscriptions visits last.
fix_overlapping_subscriptions(connection, current_filter, qos, last_wider) ==
    LET concrete == connection.concrete_subscriptions
        wild == connection.wild_subscriptions
        pruned_concrete == IF has_wildcards(current_filter)
                           THEN {e \in DOMAIN concrete : matches(e, current_filter)}
                           ELSE {}
        pruned_wild == IF has_wildcards(current_filter)
                       THEN {e \in DOMAIN wild : matches(e, current_filter) \/ matches(current_filter, e)}
                       ELSE {}
        prune_list == pruned_concrete \cup pruned_wild
        filter == IF WiderFilters(connection, current_filter) = {} THEN current_filter ELSE last_wider
        q == MaxQos(wild, pruned_wild, MaxQos(concrete, pruned_concrete, qos))
    IN  IF prune_list # {}
        THEN [some |-> TRUE, filter |-> filter, subscription |-> NewSubscription(q),
              connection |-> [connection EXCEPT
                  !.concrete_subscriptions = [f \in DOMAIN concrete \ prune_list |-> concrete[f]],
                  !.wild_subscriptions = [f \in DOMAIN wild \ prune_list |-> wild[f]]]]
        ELSE [some |-> FALSE, filter |-> current_filter, subscription |-> NewSubscription(qos),
              connection |-> connection]

\* ActiveConnection::add_to_subscriptions without the choice of the map by
\* has_wildcards: the resolved filter always goes to concrete_subscriptions.
add_to_subscriptions_into_concrete(connection, topic_path, qos, last_wider) ==
    LET fixed == fix_overlapping_subscriptions(connection, topic_path, qos, last_wider)
    IN  [fixed.connection EXCEPT
            !.concrete_subscriptions = MapInsert(@, fixed.filter, fixed.subscription)]

\* ActiveConnection::add_to_subscriptions, for a Subscribe packet with one topic.
add_to_subscriptions(connection, topic_path, qos, last_wider) ==
    LET fixed == fix_overlapping_subscriptions(connection, topic_path, qos, last_wider)
        filter == fixed.filter
        subscriber == fixed.subscription
    IN  IF has_wildcards(filter)
        THEN [fixed.connection EXCEPT !.wild_subscriptions = MapInsert(@, filter, subscriber)]
        ELSE [fixed.connection EXCEPT !.concrete_subscriptions = MapInsert(@, filter, subscriber)]

\* ActiveConnection::remove_from_subscriptions, for an Unsubscribe with one topic.
remove_from_subscriptions(connection, topic) ==
    IF has_wildcards(topic)
    THEN [connection EXCEPT !.wild_subscriptions = MapRemove(@, topic)]
    ELSE [connection EXCEPT !.wild_subscriptions = MapRemove(@, topic)]

(***************************************************************************)
(* Router: router/mod.rs.  A router value r holds the Router's fields and  *)
(* the outbound channel behind each active connection's tx.                *)
(***************************************************************************)
Router ==
    [log |-> [partitions |-> partitions, current_segment_id |-> current_segment_id],
     active_connections |-> active_connections,
     inactive_connections |-> inactive_connections,
     outbound |-> outbound,
     delivered |-> delivered]

\* Router::handle_connect without the removal of the stored session on a
\* clean Connect.
handle_connect_keeping_stored_session(r, id, clean_session, will) ==
    IF clean_session
    THEN [router |-> [r EXCEPT
              !.active_connections = MapInsert(@, id, NewActiveConnection(NewMqttState(clean_session, will)))],
          reply |-> Pending(<<>>)]
    ELSE IF id \in DOMAIN r.inactive_connections
    THEN [router |-> [r EXCEPT
              !.inactive_connections = MapRemove(@, id),
              !.active_connections = MapInsert(@, id, NewActiveConnection(r.inactive_connections[id].state))],
          reply |-> NoReply]
    ELSE [router |-> [r EXCEPT
              !.active_connections = MapInsert(@, id, NewActiveConnection(NewMqttState(clean_session, will)))],
          reply |-> Pending(<<>>)]

\* Router::handle_connect
handle_connect(r, id, clean_session, will) ==
    IF clean_session
    THEN [router |-> [r EXCEPT
              !.inactive_connections = MapRemove(@, id),
              !.active_connections = MapInsert(@, id, NewActiveConnection(NewMqttState(clean_session, will)))],
          reply |-> Pending(<<>>)]
    ELSE IF id \in DOMAIN r.inactive_connections
    THEN [router |-> [r EXCEPT
              !.inactive_connections = MapRemove(@, id),
              !.active_connections = MapInsert(@, id, NewActiveConnection(r.inactive_connections[id].state))],
          reply |-> NoReply]
    ELSE [router |-> [r EXCEPT
              !.active_connections = MapInsert(@, id, NewActiveConnection(NewMqttState(clean_session, will)))],
          reply |-> Pending(<<>>)]

\* MqttState::handle_incoming_mqtt_packet: what the session state may answer
\* to a packet.
StateOutcomes(packet) ==
    CASE packet.type = "Publish" -> IF packet.qos = 0 THEN {"None", "Err"} ELSE {"PubAck", "Err"}
      [] packet.type = "Subscribe" -> {"SubAck", "Err"}
      [] packet.type = "Unsubscribe" -> {"UnsubAck", "Err"}
      [] packet.type = "PubAck" -> {"None", "Unsolicited", "Err"}
      [] OTHER -> {"None"}

\* Router::handle_incoming_packet
handle_incoming_packet(r, id, outcome) ==
    IF id \in DOMAIN r.active_connections
    THEN CASE outcome = "None" -> [router |-> r, ok |-> TRUE, reply |-> NoReply]
           [] outcome = "Unsolicited" -> [router |-> r, ok |-> TRUE, reply |-> NoReply]
           [] outcome = "Err" ->
                [router |-> [r EXCEPT !.active_connections = MapRemove(@, id)],
                 ok |-> FALSE, reply |-> NoReply]
           [] OTHER -> [router |-> r, ok |-> TRUE, reply |-> Reply(outcome)]
    ELSE [router |-> r, ok |-> TRUE, reply |-> NoReply]

\* Router::forward
forward(r, id, message) ==
    IF id \in DOMAIN r.active_connections
    THEN LET sent == try_send(r.outbound[id], message) IN
         CASE sent.result = "Ok" -> [r EXCEPT !.outbound[id] = sent.chan]
           [] sent.result = "Full" ->
                [r EXCEPT !.active_connections = MapRemove(@, id),
                          !.inactive_connections =
                              MapInsert(@, id, NewInactiveConnection(r.active_connections[id].state))]
           [] OTHER -> [r EXCEPT !.active_connections = MapRemove(@, id)]
    ELSE r

\* Router::fill_commitlog
fill_commitlog(r, publish) == [r EXCEPT !.log = CommitLogFill(@, publish)]

\* Router::deactivate storing the session without taking the connection out
\* of the active map.
deactivate_keeping_active(r, id) ==
    IF id \in DOMAIN r.active_connections
    THEN LET connection == r.active_connections[id] IN
         IF ~connection.state.clean_session
         THEN [r EXCEPT !.inactive_connections = MapInsert(@, id, NewInactiveConnection(connection.state))]
         ELSE [r EXCEPT !.active_connections = MapRemove(@, id)]
    ELSE r

\* Router::deactivate
deactivate(r, id) ==
    IF id \in DOMAIN r.active_connections
    THEN LET connection == r.active_connections[id] IN
         IF ~connection.state.clean_session
         THEN [r EXCEPT !.active_connections = MapRemove(@, id),
                        !.inactive_connections = MapInsert(@, id, NewInactiveConnection(connection.state))]
         ELSE [r EXCEPT !.active_connections = MapRemove(@, id)]
    ELSE r

\* Router::deactivate_and_forward_will
deactivate_and_forward_will(r, id) ==
    [r EXCEPT !.active_connections = MapRemove(@, id)]

\* Router::fill_and_track for a Packet message
fill_and_track(r, id, packet, last_wider) ==
    CASE packet.type = "Publish" -> fill_commitlog(r, packet.publish)
      [] packet.type = "Subscribe" ->
            IF id \in DOMAIN r.active_connections
            THEN [r EXCEPT !.active_connections[id] =
                      add_to_subscriptions(@, packet.topic_path, packet.qos, last_wider)]
            ELSE r
      [] packet.type = "Unsubscribe" ->
            IF id \in DOMAIN r.active_connections
            THEN [r EXCEPT !.active_connections[id] = remove_from_subscriptions(@, packet.topic_path)]
            ELSE r
      [] packet.type = "Disconnect" -> deactivate(r, id)
      [] OTHER -> r

\* The loop of Router::route with update_offset called whatever try_send
\* returns: the cursor moves past a batch that was not placed on the channel.
RECURSIVE RouteSubscriptions_advancing_on_failure(_, _, _, _)
RouteSubscriptions_advancing_on_failure(parts, c, order, i) ==
    IF i > Len(order) THEN c
    ELSE LET filter == order[i]
             subscription == c.connection.concrete_subscriptions[filter]
             logs == CommitLogGet(parts, filter, subscription.offset[1], subscription.offset[2], BatchCount)
             advanced == [c.connection EXCEPT !.concrete_subscriptions[filter] =
                             update_offset(@, logs.segment_id, logs.log_offset + 1)]
         IN  IF logs.some
             THEN LET sent == try_send(c.chan, Packets(logs.packets)) IN
                  IF sent.result = "Ok"
                  THEN RouteSubscriptions_advancing_on_failure(parts,
                          [connection |-> advanced,
                           chan |-> sent.chan,
                           delivered |-> c.delivered \o logs.packets,
                           sent |-> TRUE,
                           failed |-> c.failed],
                          order, i + 1)
                  ELSE RouteSubscriptions_advancing_on_failure(parts,
                          [c EXCEPT !.connection = advanced, !.failed = TRUE], order, i + 1)
             ELSE RouteSubscriptions_advancing_on_failure(parts, c, order, i + 1)

\* The body of the loop of Router::route over one connection's concrete
\* subscriptions, visited in the given order from position i.
\* c holds the connection, its channel and what was delivered to it.
RECURSIVE RouteSubscriptions(_, _, _, _)
RouteSubscriptions(parts, c, order, i) ==
    IF i > Len(order) THEN c
    ELSE LET filter == order[i]
             subscription == c.connection.concrete_subscriptions[filter]
             logs == CommitLogGet(parts, filter, subscription.offset[1], subscription.offset[2], BatchCount)
         IN  IF logs.some
             THEN LET sent == try_send(c.chan, Packets(logs.packets)) IN
                  IF sent.result = "Ok"
                  THEN RouteSubscriptions(parts,
                          [connection |-> [c.connection EXCEPT !.concrete_subscriptions[filter] =
                                              update_offset(@, logs.segment_id, logs.log_offset + 1)],
                           chan |-> sent.chan,
                           delivered |-> c.delivered \o logs.packets,
                           sent |-> TRUE,
                           failed |-> c.failed],
                          order, i + 1)
                  ELSE RouteSubscriptions(parts, [c EXCEPT !.failed = TRUE], order, i + 1)
             ELSE RouteSubscriptions(parts, c, order, i + 1)

\* Router::route that gives up the tick at a failed try_send: once the first
\* connection visited could not take a batch, the others are not visited.
route_stopping_at_failure(r, orders) ==
    LET ids == DOMAIN r.active_connections
        visited == [id \in ids |->
                     RouteSubscriptions(r.log.partitions,
                        [connection |-> r.active_connections[id], chan |-> r.outbound[id],
                         delivered |-> r.delivered[id], sent |-> FALSE, failed |-> FALSE],
                        orders[id], 1)]
        first == CHOOSE id \in ids : TRUE
        routed == [id \in ids |->
                     IF id # first /\ visited[first].failed
                     THEN [connection |-> r.active_connections[id], chan |-> r.outbound[id],
                           delivered |-> r.delivered[id], sent |-> FALSE, failed |-> FALSE]
                     ELSE visited[id]]
    IN  [router |-> [r EXCEPT
             !.active_connections = [id \in ids |-> routed[id].connection],
             !.outbound = [id \in ClientIds |->
                             IF id \in ids THEN routed[id].chan ELSE r.outbound[id]],
             !.delivered = [id \in ClientIds |->
                             IF id \in ids THEN routed[id].delivered ELSE r.delivered[id]]],
         sent |-> {id \in ids : routed[id].sent},
         failed |-> {id \in ids : routed[id].failed}]

\* Router::route; orders[id] is the order in which the concrete subscriptions
\* of connection id are visited.
route(r, orders) ==
    LET routed == [id \in DOMAIN r.active_connections |->
                     RouteSubscriptions(r.log.partitions,
                        [connection |-> r.active_connections[id], chan |-> r.outbound[id],
                         delivered |-> r.delivered[id], sent |-> FALSE, failed |-> FALSE],
                        orders[id], 1)]
    IN  [router |-> [r EXCEPT
             !.active_connections = [id \in DOMAIN r.active_connections |-> routed[id].connection],
             !.outbound = [id \in ClientIds |->
                             IF id \in DOMAIN r.active_connections THEN routed[id].chan ELSE r.outbound[id]],
             !.delivered = [id \in ClientIds |->
                             IF id \in DOMAIN r.active_connections THEN routed[id].delivered ELSE r.delivered[id]]],
         sent |-> {id \in DOMAIN r.active_connections : routed[id].sent},
         failed |-> {id \in DOMAIN r.active_connections : routed[id].failed}]

(***************************************************************************)
(* The Router of router.rs: a commit log that is a map from topic to the   *)
(* publishes since the last tick, and a store of retained publishes.  A    *)
(* router value r holds the Router's fields and the channel behind each    *)
(* connection's tx.                                                        *)
(***************************************************************************)
Publishes(publishes) == [type |-> "Publishes", packets |-> publishes]

\* Sender::try_send on a channel of the given capacity.
try_send_within(chan, message, capacity) ==
    IF chan.closed THEN [result |-> "Closed", chan |-> chan]
    ELSE IF Len(chan.queue) >= capacity THEN [result |-> "Full", chan |-> chan]
    ELSE [result |-> "Ok", chan |-> [chan EXCEPT !.queue = Append(@, message)]]

\* ActiveConnection::new of router.rs
NewActiveConnection_router_rs(state) ==
    [state |-> state, retained |-> <<>>,
     concrete_subscriptions |-> EmptyMap, wild_subscriptions |-> EmptyMap]

\* Router::new of router.rs
NewRouter_router_rs ==
    [commitlog |-> EmptyMap,
     active_connections |-> EmptyMap,
     inactive_connections |-> EmptyMap,
     retained_publishes |-> EmptyMap,
     tx |-> [id \in ClientIds |-> NewChannel]]

\* fill_commitlog of router.rs without the removal on an empty payload: a
\* retained publish is stored whatever its payload.
fill_commitlog_router_rs_keeping_cleared(r, publish) ==
    LET topic == publish.topic_name
        appended == IF topic \in DOMAIN r.commitlog
                    THEN Append(r.commitlog[topic], publish) ELSE <<publish>>
    IN  IF publish.retain
        THEN [r EXCEPT !.retained_publishes = MapInsert(@, topic, publish),
                       !.commitlog = MapInsert(@, topic, appended)]
        ELSE [r EXCEPT !.commitlog = MapInsert(@, topic, appended)]

\* Router::fill_commitlog of router.rs
fill_commitlog_router_rs(r, publish) ==
    LET topic == publish.topic_name
        appended == IF topic \in DOMAIN r.commitlog
                    THEN Append(r.commitlog[topic], publish) ELSE <<publish>>
    IN  IF publish.retain /\ publish.payload_len = 0
        THEN [r EXCEPT !.retained_publishes = MapRemove(@, topic)]
        ELSE IF publish.retain
        THEN [r EXCEPT !.retained_publishes = MapInsert(@, topic, publish),
                       !.commitlog = MapInsert(@, topic, appended)]
        ELSE [r EXCEPT !.commitlog = MapInsert(@, topic, appended)]

\* Router::match_retainted_publishes for a Subscribe with one topic; order
\* is the order in which the iteration of retained_publishes visits the
\* topics that match a wildcard filter.
match_retainted_publishes(r, filter, qos, order) ==
    IF has_wildcards(filter)
    THEN [i \in 1..Len(order) |-> [r.retained_publishes[order[i]] EXCEPT !.qos = qos]]
    ELSE IF filter \in DOMAIN r.retained_publishes
    THEN <<[r.retained_publishes[filter] EXCEPT !.qos = qos]>>
    ELSE <<>>

\* The retained topics a filter matches.
RetainedTopics(r, filter) == {t \in DOMAIN r.retained_publishes : matches(t, filter)}

\* ActiveConnection::add_to_subscriptions of router.rs, for a Subscribe with
\* one topic: the retained publishes are queued on the connection, and the
\* subscription maps change as in router/connection.rs.
add_to_subscriptions_router_rs(connection, topic_path, qos, last_wider, retained_publishes) ==
    add_to_subscriptions([connection EXCEPT !.retained = @ \o retained_publishes],
                         topic_path, qos, last_wider)

\* Router::handle_connect of router.rs
handle_connect_router_rs(r, id, clean_session, will) ==
    IF clean_session
    THEN [router |-> [r EXCEPT
              !.inactive_connections = MapRemove(@, id),
              !.active_connections =
                  MapInsert(@, id, NewActiveConnection_router_rs(NewMqttState(clean_session, will)))],
          reply |-> Pending(<<>>)]
    ELSE IF id \in DOMAIN r.inactive_connections
    THEN [router |-> [r EXCEPT !.inactive_connections = MapRemove(@, id)],
          reply |-> NoReply]
    ELSE [router |-> [r EXCEPT
              !.active_connections =
                  MapInsert(@, id, NewActiveConnection_router_rs(NewMqttState(clean_session, will)))],
          reply |-> Pending(<<>>)]

\* Router::handle_incoming_packet of router.rs, the same text as in
\* router/mod.rs.
handle_incoming_packet_router_rs(r, id, outcome) == handle_incoming_packet(r, id, outcome)

\* Router::forward of router.rs
forward_router_rs(r, id, message) ==
    IF id \in DOMAIN r.active_connections
    THEN LET sent == try_send_within(r.tx[id], message, RetainedChannelCapacity) IN
         CASE sent.result = "Ok" -> [r EXCEPT !.tx[id] = sent.chan]
           [] sent.result = "Full" ->
                [r EXCEPT !.active_connections = MapRemove(@, id),
                          !.inactive_connections =
                              MapInsert(@, id, NewInactiveConnection(r.active_connections[id].state))]
           [] OTHER -> [r EXCEPT !.active_connections = MapRemove(@, id)]
    ELSE r

\* Router::fill_and_track of router.rs for a Packet message.
fill_and_track_router_rs(r, id, packet, last_wider, order) ==
    CASE packet.type = "Publish" -> fill_commitlog_router_rs(r, packet.publish)
      [] packet.type = "Subscribe" ->
            LET retained_publishes ==
                    match_retainted_publishes(r, packet.topic_path, packet.qos, order)
            IN  IF id \in DOMAIN r.active_connections
                THEN [r EXCEPT !.active_connections[id] =
                          add_to_subscriptions_router_rs(@, packet.topic_path, packet.qos,
                                                         last_wider, retained_publishes)]
                ELSE r
      [] OTHER -> r

\* The loop over one connection's concrete subscriptions in Router::route
\* of router.rs: c is [chan, failed]; order is the iteration order of the
\* connection's concrete subscriptions.
RECURSIVE RouteConcrete_router_rs(_, _, _, _)
RouteConcrete_router_rs(commitlog, c, order, i) ==
    IF i > Len(order) THEN c
    ELSE IF order[i] \in DOMAIN commitlog
    THEN LET sent == try_send_within(c.chan, Publishes(commitlog[order[i]]),
                                     RetainedChannelCapacity)
         IN  RouteConcrete_router_rs(commitlog,
                 [chan |-> sent.chan, failed |-> c.failed \/ sent.result # "Ok"], order, i + 1)
    ELSE RouteConcrete_router_rs(commitlog, c, order, i + 1)

\* Router::route of router.rs.  MqttState::handle_outgoing_publishes keeps
\* the publishes of a message and their order.
route_router_rs(r, orders) ==
    LET ids == DOMAIN r.active_connections
        retained_sent(id) ==
            IF Len(r.active_connections[id].retained) > 0
            THEN try_send_within(r.tx[id], Publishes(r.active_connections[id].retained),
                                 RetainedChannelCapacity).chan
            ELSE r.tx[id]
        routed(id) == RouteConcrete_router_rs(r.commitlog,
                          [chan |-> retained_sent(id), failed |-> FALSE], orders[id], 1)
        graveyard == {id \in ids : routed(id).failed}
    IN  [r EXCEPT
            !.tx = [id \in ClientIds |-> IF id \in ids THEN routed(id).chan ELSE r.tx[id]],
            !.commitlog = EmptyMap,
            !.active_connections =
                [id \in ids \ graveyard |-> [r.active_connections[id] EXCEPT !.retained = <<>>]],
            !.inactive_connections =
                [id \in DOMAIN r.inactive_connections \cup graveyard |->
                    IF id \in graveyard
                    THEN NewInactiveConnection(r.active_connections[id].state)
                    ELSE r.inactive_connections[id]]]

\* A Connect message to the router of router.rs: reply, forward,
\* fill_and_track.  The message carries the sender of the connection's
\* newly created channel.
HandleConnect_router_rs(r, id, clean_session, will) ==
    LET h == handle_connect_router_rs([r EXCEPT !.tx[id] = NewChannel], id, clean_session, will)
    IN  IF h.reply.type # "None" THEN forward_router_rs(h.router, id, h.reply) ELSE h.router

\* A Packet message to the router of router.rs: reply, forward,
\* fill_and_track.
HandlePacket_router_rs(r, id, packet, outcome, last_wider, order) ==
    LET h == handle_incoming_packet_router_rs(r, id, outcome) IN
    IF ~h.ok THEN h.router
    ELSE fill_and_track_router_rs(
             IF h.reply.type # "None" THEN forward_router_rs(h.router, id, h.reply) ELSE h.router,
             id, packet, last_wider, order)

(***************************************************************************)
(* mqtt5bytes: bytes are numbers in 0..255, a buffer is a sequence of      *)
(* bytes.  A target is what the build fixes about native byte order and    *)
(* the width of usize; a build has overflow checks on (debug) or off       *)
(* (release).                                                              *)
(***************************************************************************)
\* Whether value + factor * multiplier passes the largest u32, computed on
\* 16-bit halves.
u32_overflows(value, factor, multiplier) ==
    (value \div 65536) + factor * (multiplier \div 65536)
        + ((value % 65536) + factor * (multiplier % 65536)) \div 65536 >= 65536

Targets == {[endian |-> e, usize_len |-> w] : e \in {"little", "big"}, w \in {4, 8}}
Builds == {"debug", "release"}

Reverse(s) == [i \in 1..Len(s) |-> s[Len(s) + 1 - i]]

RECURSIVE to_le_bytes(_, _)
to_le_bytes(value, len) ==
    IF len = 0 THEN <<>> ELSE <<value % 256>> \o to_le_bytes(value \div 256, len - 1)

\* to_ne_bytes of an integer type that is len bytes wide.
to_ne_bytes(value, len, target) ==
    IF target.endian = "little" THEN to_le_bytes(value, len) ELSE Reverse(to_le_bytes(value, len))

\* What a call of the codec returns: Ok, Err with the error's name, or a
\* panic.
NoPacket == [type |-> "", bytes |-> <<>>]
NoResult ==
    [kind |-> "None", error |-> "", value |-> 0, byte_len |-> 0, overflow |-> FALSE,
     bytes |-> <<>>, packet |-> NoPacket, properties |-> EmptyMap]
Ok == [NoResult EXCEPT !.kind = "Ok"]
Err(error) == [NoResult EXCEPT !.kind = "Err", !.error = error]
Panic == [NoResult EXCEPT !.kind = "Panic"]

\* The loop of encode_variable_byte: encoded_byte is an i32, and its four
\* native-order bytes are appended for every group of seven bits.
RECURSIVE encode_variable_byte_loop(_, _, _)
encode_variable_byte_loop(value, buf, target) ==
    IF value > 0
    THEN LET rest == value \div 128
             encoded_byte == (value % 128) + (IF rest > 0 THEN 128 ELSE 0)
         IN  encode_variable_byte_loop(rest, buf \o to_ne_bytes(encoded_byte, 4, target), target)
    ELSE buf

\* encode_variable_byte
encode_variable_byte(value, target) ==
    [Ok EXCEPT !.bytes = encode_variable_byte_loop(value, <<>>, target)]

\* The loop of decode_variable_byte.  get_u8 panics on an empty buffer; the
\* u32 addition and multiplication panic on overflow in a debug build and
\* wrap in a release build; a sum that has wrapped is never read again, the
\* loop returns right after it.  The result carries what is left of the
\* stream.
RECURSIVE decode_variable_byte_loop(_, _, _, _, _, _)
decode_variable_byte_loop(stream, multiplier, value, byte_len, overflow, build) ==
    IF stream = <<>> THEN [Panic EXCEPT !.overflow = overflow]
    ELSE LET encoded_byte == Head(stream)
             len == byte_len + 1
             sum == value + (encoded_byte % 128) * multiplier
             wrapped == overflow \/ u32_overflows(value, encoded_byte % 128, multiplier)
         IN  IF u32_overflows(value, encoded_byte % 128, multiplier) /\ build = "debug"
             THEN [Panic EXCEPT !.overflow = TRUE, !.bytes = Tail(stream)]
             ELSE IF multiplier > 128 * 128 * 128
             THEN [Err("MalformedVariableByteInteger") EXCEPT
                      !.byte_len = len, !.overflow = wrapped, !.bytes = Tail(stream)]
             ELSE IF encoded_byte >= 128
             THEN decode_variable_byte_loop(Tail(stream), multiplier * 128, sum, len,
                                            wrapped, build)
             ELSE [Ok EXCEPT !.value = sum, !.byte_len = len, !.overflow = wrapped,
                             !.bytes = Tail(stream)]

\* decode_variable_byte; .bytes of the result is the stream after the call.
decode_variable_byte(stream, build) == decode_variable_byte_loop(stream, 1, 0, 0, FALSE, build)

\* PacketType, in the order of its discriminants 1..15.
PacketTypes ==
    <<"Connect", "ConnAck", "Publish", "PubAck", "PubRec", "PubRel", "PubComp", "Subscribe",
      "SubAck", "Unsubscribe", "UnsubAck", "PingReq", "PingResp", "Disconnect", "Auth">>

\* packet_type
packet_type(num) ==
    IF num \in 1..15 THEN [Ok EXCEPT !.packet = [type |-> PacketTypes[num], bytes |-> <<>>]]
    ELSE [Err("InvalidPacketType") EXCEPT !.value = num]

\* header_len of read.rs
header_len(remaining_len) ==
    IF remaining_len >= 2097152 THEN 4 + 1
    ELSE IF remaining_len >= 16384 THEN 3 + 1
    ELSE IF remaining_len >= 128 THEN 2 + 1
    ELSE 1 + 1

\* parse_fixed_header: get_u8 takes the first byte off the stream, and
\* Buf::to_bytes takes all that remains out of it, into the buffer that
\* decode_variable_byte reads.  .result.value is the remaining length.
parse_fixed_header(stream, build) ==
    IF stream = <<>>
    THEN [result |-> Err("UnexpectedEof"), byte1 |-> 0, stream |-> stream]
    ELSE [result |-> [decode_variable_byte(Tail(stream), build) EXCEPT !.bytes = <<>>],
          byte1 |-> Head(stream), stream |-> <<>>]

\* mqtt_read: the result and the caller's stream after the call.  A packet
\* that an assembler returns is held as its type and the bytes the assembler
\* was given.
mqtt_read(stream, max_payload_size, build) ==
    LET h == parse_fixed_header(stream, build)
        remaining_len == h.result.value
        len == header_len(remaining_len) + remaining_len
        control_type == packet_type(h.byte1 \div 16)
        packet == SubSeq(h.stream, 1, len)
        rest == SubSeq(h.stream, len + 1, Len(h.stream))
    IN  IF h.result.kind # "Ok" THEN [result |-> h.result, stream |-> h.stream]
        ELSE IF remaining_len > max_payload_size
        THEN [result |-> Err("PayloadSizeLimitExceeded"), stream |-> h.stream]
        ELSE IF Len(h.stream) < len
        THEN [result |-> Err("UnexpectedEof"), stream |-> h.stream]
        ELSE IF control_type.kind # "Ok" THEN [result |-> control_type, stream |-> rest]
        ELSE IF remaining_len = 0 /\ control_type.packet.type \notin {"PingReq", "PingResp"}
        THEN [result |-> Err("PayloadRequired"), stream |-> rest]
        ELSE [result |-> [Ok EXCEPT !.packet = [type |-> control_type.packet.type,
                                                bytes |-> packet]],
              stream |-> rest]

\* encode_utf_string: the length is a usize, written in native order.
encode_utf_string(value, target) == to_ne_bytes(Len(value), target.usize_len, target) \o value

\* Connect::disassemble; ConnectFlags, ConnectProperties and ConnectPayload
\* disassemble to no bytes.
Connect_disassemble(packet, target) ==
    LET fixed_header == <<1, 1>>
        var_header == encode_utf_string(<<77, 81, 84, 84>>, target) \o <<5>>
                         \o <<packet.keep_alive \div 256, packet.keep_alive % 256>>
    IN  [Ok EXCEPT !.bytes = fixed_header \o var_header]

\* mqtt_write
mqtt_write(packet, target) ==
    IF packet.type = "Connect" THEN Connect_disassemble(packet, target)
    ELSE [Err("InvalidPacketType") EXCEPT !.value = 0]

\* Buf::get_u16 and Buf::get_u32 on a stream that holds the bytes: big-endian.
\* A u32 is held as its two 16-bit halves.
get_u16(stream) == stream[1] * 256 + stream[2]
get_u32(stream) == [hi |-> get_u16(stream), lo |-> get_u16(SubSeq(stream, 3, 4))]

\* The stream after n bytes were taken from its front.
advance(stream, n) == SubSeq(stream, n + 1, Len(stream))

\* decode_utf_string.  get_u16 panics on a stream shorter than two bytes.
\* The loop `while strlen != 0` never changes strlen: for a string that is
\* not empty it calls get_u8 until the stream is empty and get_u8 panics.
\* The returned length is 2 + strlen.
decode_utf_string(stream) ==
    IF Len(stream) < 2 THEN [ok |-> FALSE, value |-> <<>>, len |-> 0, stream |-> stream]
    ELSE IF get_u16(stream) # 0
    THEN [ok |-> FALSE, value |-> <<>>, len |-> 2 + get_u16(stream), stream |-> <<>>]
    ELSE [ok |-> TRUE, value |-> <<>>, len |-> 2, stream |-> advance(stream, 2)]

\* decode_utf_string_pair: two strings, the key then the value.
decode_utf_string_pair(stream) ==
    LET K == decode_utf_string(stream)
        V == decode_utf_string(K.stream)
    IN  IF ~K.ok THEN K
        ELSE IF ~V.ok THEN V
        ELSE [ok |-> TRUE, value |-> <<K.value, V.value>>, len |-> K.len + V.len,
              stream |-> V.stream]

\* PropertyIdentifiers: the constants of the decoder.
PropertyIdentifiers ==
    [PAYLOAD_FORMAT_INDICATOR |-> 0, MESSAGE_EXPIRY_INTERVAL |-> 2, CONTENT_TYPE |-> 3,
     RESPONSE_TOPIC |-> 8, CORRELATION_DATA |-> 9, SUBSCRIPTION_IDENTIFIER |-> 11,
     SESSION_EXPIRY_INTERVAL |-> 17, ASSIGNED_CLIENT_IDENTIFIER |-> 18,
     SERVER_KEEP_ALIVE |-> 19, AUTHENTICATION_METHOD |-> 21, AUTHENTICATION_DATA |-> 22,
     REQUEST_PROBLEM_INFORMATION |-> 23, WILL_DELAY_INTERVAL |-> 24,
     REQUEST_RESPONSE_INFORMATION |-> 25, RESPONSE_INFO |-> 26, SERVER_INFO |-> 28,
     REASON_STRING |-> 31, RECEIVE_MAXIMUM |-> 33, TOPIC_ALIAS_MAXIMUM |-> 34,
     TOPIC_ALIAS |-> 35, MAXIMUM_QOS |-> 36, RETAIN_AVAILABLE |-> 37, USER_PROPERTY |-> 38,
     MAXIMUM_PACKET_SIZE |-> 39, WILDCARD_SUBSCRIPTION_AVAILABLE |-> 40,
     SUBSCRIPTION_IDENTIFIER_AVAILABLE |-> 41, SHARED_SUBSCRIPTION_AVAILABLE |-> 42]

\* The fields of Properties.
PropertyFields ==
    {"payload_format_indicator", "message_expiry_interval", "content_type",
     "response_topic", "correlation_data", "subscription_identifier",
     "session_expiry_interval", "assigned_client_identifier", "server_keep_alive",
     "authentication_method", "authentication_data", "request_problem_info",
     "will_delay_interval", "request_response_info", "response_info", "server_info",
     "reason_string", "receive_maximum", "topic_alias_maximum", "topic_alias",
     "maximum_qos", "retain_available", "user_property", "maximum_packet_size",
     "wildcard_subscription_available", "subscription_identifier_available",
     "shared_subscription_available"}

\* Properties with every field None; Some(v) is <<v>> and None is <<>>.
NoProperties == [field \in PropertyFields |-> <<>>]

\* One arm of the match in extract_properties: the field it sets, the call
\* that reads the value and, for an integer, what it takes off prop_length.
Arm(field, read, len) == [field |-> field, read |-> read, len |-> len]

\* The arms of the match in extract_properties, by identifier.
PropertyArms ==
    LET id == PropertyIdentifiers IN
       (id.PAYLOAD_FORMAT_INDICATOR :> Arm("payload_format_indicator", "get_u8", 1))
    @@ (id.MESSAGE_EXPIRY_INTERVAL :> Arm("message_expiry_interval", "get_u32", 4))
    @@ (id.CONTENT_TYPE :> Arm("content_type", "decode_utf_string", 0))
    @@ (id.RESPONSE_TOPIC :> Arm("response_topic", "decode_utf_string", 0))
    @@ (id.CORRELATION_DATA :> Arm("correlation_data", "decode_utf_string", 0))
    @@ (id.SUBSCRIPTION_IDENTIFIER :> Arm("subscription_identifier", "get_u32", 4))
    @@ (id.SESSION_EXPIRY_INTERVAL :> Arm("session_expiry_interval", "get_u32", 4))
    @@ (id.ASSIGNED_CLIENT_IDENTIFIER :> Arm("assigned_client_identifier", "decode_utf_string", 0))
    @@ (id.SERVER_KEEP_ALIVE :> Arm("server_keep_alive", "get_u16", 4))
    @@ (id.AUTHENTICATION_METHOD :> Arm("authentication_method", "decode_utf_string", 0))
    @@ (id.AUTHENTICATION_DATA :> Arm("authentication_data", "decode_utf_string", 0))
    @@ (id.REQUEST_PROBLEM_INFORMATION :> Arm("request_problem_info", "get_u8", 1))
    @@ (id.WILL_DELAY_INTERVAL :> Arm("will_delay_interval", "get_u32", 4))
    @@ (id.REQUEST_RESPONSE_INFORMATION :> Arm("request_response_info", "get_u8", 1))
    @@ (id.RESPONSE_INFO :> Arm("response_info", "decode_utf_string", 0))
    @@ (id.SERVER_INFO :> Arm("server_info", "decode_utf_string", 0))
    @@ (id.REASON_STRING :> Arm("reason_string", "decode_utf_string", 0))
    @@ (id.RECEIVE_MAXIMUM :> Arm("receive_maximum", "get_u16", 2))
    @@ (id.TOPIC_ALIAS_MAXIMUM :> Arm("topic_alias_maximum", "get_u16", 2))
    @@ (id.TOPIC_ALIAS :> Arm("topic_alias", "get_u16", 2))
    @@ (id.MAXIMUM_QOS :> Arm("maximum_qos", "get_u8", 1))
    @@ (id.RETAIN_AVAILABLE :> Arm("retain_available", "get_u8", 1))
    @@ (id.USER_PROPERTY :> Arm("user_property", "decode_utf_string_pair", 0))
    @@ (id.MAXIMUM_PACKET_SIZE :> Arm("maximum_packet_size", "get_u32", 4))
    @@ (id.WILDCARD_SUBSCRIPTION_AVAILABLE :> Arm("wildcard_subscription_available", "get_u8", 1))
    @@ (id.SUBSCRIPTION_IDENTIFIER_AVAILABLE :> Arm("subscription_identifier_available", "get_u8", 1))
    @@ (id.SHARED_SUBSCRIPTION_AVAILABLE :> Arm("shared_subscription_available", "get_u8", 1))

\* The value an arm reads off the stream: get_u8, get_u16 and get_u32 panic on
\* a stream that holds fewer bytes, and take arm.len off prop_length whatever
\* they read; the string decoders return the length to take off.
read_property(arm, stream) ==
    IF arm.read = "decode_utf_string" THEN decode_utf_string(stream)
    ELSE IF arm.read = "decode_utf_string_pair" THEN decode_utf_string_pair(stream)
    ELSE LET width == IF arm.read = "get_u8" THEN 1 ELSE IF arm.read = "get_u16" THEN 2 ELSE 4
         IN  IF Len(stream) < width
             THEN [ok |-> FALSE, value |-> 0, len |-> arm.len, stream |-> stream]
             ELSE [ok |-> TRUE,
                   value |-> IF width = 1 THEN stream[1]
                             ELSE IF width = 2 THEN get_u16(stream) ELSE get_u32(stream),
                   len |-> arm.len, stream |-> advance(stream, width)]

\* The loop of extract_properties.  prop_length is a u32: taking more off it
\* than it holds panics in a debug build and wraps in a release build; a
\* wrapped prop_length 2^32 - k is held as -k, and is above 0 as a u32.
RECURSIVE extract_properties_loop(_, _, _, _)
extract_properties_loop(stream, prop_length, props, build) ==
    IF prop_length = 0 THEN [Ok EXCEPT !.properties = <<props>>, !.bytes = stream]
    ELSE IF stream = <<>> THEN Panic
    ELSE LET ident == Head(stream) IN
         IF ident \notin DOMAIN PropertyArms
         THEN [Err("InvalidProperty") EXCEPT !.bytes = Tail(stream)]
         ELSE LET arm == PropertyArms[ident]
                  read == read_property(arm, Tail(stream))
                  after_ident == prop_length - 1
                  underflow == after_ident >= 0 /\ after_ident < read.len
              IN  IF ~read.ok THEN [Panic EXCEPT !.bytes = read.stream]
                  ELSE IF underflow /\ build = "debug"
                  THEN [Panic EXCEPT !.overflow = TRUE, !.bytes = read.stream]
                  ELSE extract_properties_loop(read.stream, after_ident - read.len,
                           [props EXCEPT ![arm.field] = <<read.value>>], build)

\* extract_properties; .bytes of the result is the stream after the call and
\* .properties is <<props>> for Ok(Some(props)), <<>> for Ok(None).
extract_properties(stream, build) ==
    LET prop_length == decode_variable_byte(stream, build) IN
    IF prop_length.kind # "Ok" THEN prop_length
    ELSE IF prop_length.value > 0
    THEN extract_properties_loop(prop_length.bytes, prop_length.value, NoProperties, build)
    ELSE [Ok EXCEPT !.bytes = prop_length.bytes]

(***************************************************************************)
(* History kept beside the router's state.                                 *)
(***************************************************************************)
NoSession == [resumed |-> FALSE, left |-> "", filters |-> {}, missed |-> <<>>]

SubscribedFilters(connection) ==
    DOMAIN connection.concrete_subscriptions \cup DOMAIN connection.wild_subscriptions

Matching(publishes, filters) ==
    SelectSeq(publishes, LAMBDA p : \E f \in filters : matches(p.topic_name, f))

\* The session history after a step of the given kind from router r to
\* router r2 in which the publishes `appended` reached the commit log.
SessionAfter(r, r2, appended, kind) ==
    [id \in ClientIds |->
        IF id \in DOMAIN r.active_connections /\ id \notin DOMAIN r2.active_connections
        THEN IF id \in DOMAIN r2.inactive_connections
             THEN [resumed |-> FALSE, left |-> kind,
                   filters |-> SubscribedFilters(r.active_connections[id]), missed |-> <<>>]
             ELSE NoSession
        ELSE IF id \in DOMAIN r2.inactive_connections
        THEN [session[id] EXCEPT !.missed = @ \o Matching(appended, session[id].filters)]
        ELSE session[id]]

\* What the router owes each connection after such a step.
OwedAfter(r2, appended) ==
    [id \in ClientIds |->
        IF id \in DOMAIN r2.active_connections
        THEN owed[id] \o Matching(appended, SubscribedFilters(r2.active_connections[id]))
        ELSE <<>>]

Step(kind, id) ==
    [kind |-> kind, id |-> id, sent |-> {}, failed |-> {}, error |-> FALSE,
     clean_session |-> FALSE, stored |-> FALSE, displaced |-> [some |-> FALSE, queue |-> <<>>],
     topic_path |-> <<>>,
     get |-> [topic |-> <<>>, segment_id |-> 0, log_offset |-> 0, count |-> 0,
              messages |-> NoMessages]]

\* What a Connect leaves on the channel of the active connection of the
\* same id: HashMap::insert in handle_connect drops the old ActiveConnection
\* and its sender; nothing is sent on it.
Displaced(r, id) ==
    IF id \in DOMAIN r.active_connections
    THEN [some |-> TRUE, queue |-> r.outbound[id].queue]
    ELSE [some |-> FALSE, queue |-> <<>>]

Apply(r) ==
    /\ partitions' = r.log.partitions
    /\ current_segment_id' = r.log.current_segment_id
    /\ active_connections' = r.active_connections
    /\ inactive_connections' = r.inactive_connections
    /\ outbound' = r.outbound
    /\ delivered' = r.delivered

Step_router_rs(kind, id) ==
    [kind |-> kind, id |-> id, error |-> FALSE, topic_path |-> <<>>, qos |-> 0,
     retained_publishes |-> EmptyMap, queue |-> <<>>]

\* A call of the codec: what it was given and what it gave back.  stream is
\* the caller's buffer after the call.
Call(op) ==
    [op |-> op, value |-> 0, target |-> [endian |-> "little", usize_len |-> 8],
     build |-> "debug", packet |-> NoPacket, encoding |-> <<>>, input |-> <<>>,
     stream |-> <<>>, result |-> NoResult]

Init ==
    /\ codec = Call("")
    /\ router_rs = [router |-> NewRouter_router_rs, published |-> <<>>, nconnects |-> 0,
                    nsubscribes |-> 0, last |-> Step_router_rs("Init", "")]
    /\ partitions = EmptyMap
    /\ current_segment_id = 0
    /\ active_connections = EmptyMap
    /\ inactive_connections = EmptyMap
    /\ outbound = [id \in ClientIds |-> NewChannel]
    /\ delivered = [id \in ClientIds |-> <<>>]
    /\ owed = [id \in ClientIds |-> <<>>]
    /\ session = [id \in ClientIds |-> NoSession]
    /\ npublishes = 0
    /\ nconnects = 0
    /\ subscribes = [id \in ClientIds |-> <<>>]
    /\ last = Step("Init", "")

(***************************************************************************)
(* Router::start, one arm of the select per action.                        *)
(***************************************************************************)
\* A Connect message: reply, forward, fill_and_track.  The message carries
\* the sender of the connection's newly created outbound channel.
HandleConnect(r, id, clean_session, will) ==
    LET fresh == [r EXCEPT !.outbound[id] = NewChannel, !.delivered[id] = <<>>]
        h == handle_connect(fresh, id, clean_session, will)
    IN  IF h.reply.type # "None" THEN forward(h.router, id, h.reply) ELSE h.router

\* A Packet message handled without the `continue` after a state error:
\* fill_and_track runs for the rejected packet too.
HandlePacket_tracking_rejected(r, id, packet, outcome, last_wider) ==
    LET h == handle_incoming_packet(r, id, outcome) IN
    fill_and_track(IF h.reply.type # "None" THEN forward(h.router, id, h.reply) ELSE h.router,
                   id, packet, last_wider)

\* A Packet message: reply, forward, fill_and_track.
HandlePacket(r, id, packet, outcome, last_wider) ==
    LET h == handle_incoming_packet(r, id, outcome) IN
    IF ~h.ok THEN h.router
    ELSE fill_and_track(IF h.reply.type # "None" THEN forward(h.router, id, h.reply) ELSE h.router,
                        id, packet, last_wider)

\* The ids whose reply to the packet meets a full or closed channel.
ReplyFailures(r, id, outcome) ==
    LET h == handle_incoming_packet(r, id, outcome) IN
    IF h.ok /\ h.reply.type # "None" /\ id \in DOMAIN h.router.active_connections
          /\ try_send(h.router.outbound[id], h.reply).result # "Ok"
    THEN {id} ELSE {}

\* A Death message: reply, fill_and_track.
HandleDeath(r, id) == deactivate_and_forward_will(r, id)

Outcomes(id, packet) ==
    IF id \in DOMAIN active_connections THEN StateOutcomes(packet) ELSE {"None"}

Connect(id, clean_session, will) ==
    /\ LET r2 == HandleConnect(Router, id, clean_session, will) IN
       /\ Apply(r2)
       /\ session' = [session EXCEPT ![id] =
             IF ~clean_session /\ id \in DOMAIN inactive_connections
             THEN [@ EXCEPT !.resumed = TRUE] ELSE NoSession]
    /\ owed' = [owed EXCEPT ![id] = <<>>]
    /\ nconnects' = nconnects + 1
    /\ subscribes' = [subscribes EXCEPT ![id] = <<>>]
    /\ UNCHANGED <<router_rs, codec>>
    /\ last' = [Step("Connect", id) EXCEPT !.clean_session = clean_session,
                                          !.stored = id \in DOMAIN inactive_connections,
                                          !.displaced = Displaced(Router, id)]
    /\ UNCHANGED npublishes

PacketStep(id, packet, outcome, last_wider) ==
    /\ LET r2 == HandlePacket(Router, id, packet, outcome, last_wider)
           appended == IF packet.type = "Publish" /\ outcome # "Err" THEN <<packet.publish>> ELSE <<>>
       IN  /\ Apply(r2)
           /\ session' = SessionAfter(Router, r2, appended, packet.type)
           /\ owed' = IF packet.type = "Subscribe"
                      THEN [OwedAfter(r2, appended) EXCEPT ![id] = <<>>]
                      ELSE OwedAfter(r2, appended)
    /\ UNCHANGED <<router_rs, codec>>
    /\ last' = [Step(packet.type, id) EXCEPT
                   !.failed = ReplyFailures(Router, id, outcome),
                   !.error = (outcome = "Err"),
                   !.topic_path = IF packet.type = "Unsubscribe" THEN packet.topic_path ELSE <<>>]
    /\ UNCHANGED nconnects

Publish(id, topic, qos, size) ==
    /\ LET publish == [topic_name |-> topic, qos |-> qos, payload_len |-> size, n |-> npublishes + 1]
           packet == [type |-> "Publish", qos |-> qos, publish |-> publish]
       IN  \E outcome \in Outcomes(id, packet) : PacketStep(id, packet, outcome, topic)
    /\ npublishes' = npublishes + 1
    /\ UNCHANGED <<subscribes>>

\* A Subscribe packet of id with one topic reaches the router.
SubscribePacket(id, filter, qos) ==
    /\ LET packet == [type |-> "Subscribe", qos |-> qos, topic_path |-> filter] IN
       \E outcome \in Outcomes(id, packet) :
          \E last_wider \in (IF id \in DOMAIN active_connections
                                /\ WiderFilters(active_connections[id], filter) # {}
                             THEN WiderFilters(active_connections[id], filter) ELSE {filter}) :
             PacketStep(id, packet, outcome, last_wider)
    /\ subscribes' = [subscribes EXCEPT ![id] = Append(@, [topic_path |-> filter, qos |-> qos])]
    /\ UNCHANGED npublishes

Subscribe(id, filter, qos) ==
    /\ Len(subscribes[id]) < MaxSubscribes
    /\ SubscribePacket(id, filter, qos)

Unsubscribe(id, filter) ==
    /\ LET packet == [type |-> "Unsubscribe", topic_path |-> filter] IN
       \E outcome \in Outcomes(id, packet) : PacketStep(id, packet, outcome, filter)
    /\ UNCHANGED <<npublishes, subscribes>>

Disconnect(id) ==
    /\ PacketStep(id, [type |-> "Disconnect"], "None", <<>>)
    /\ UNCHANGED <<npublishes, subscribes>>

PubAck(id) ==
    /\ LET packet == [type |-> "PubAck"] IN
       \E outcome \in Outcomes(id, packet) : PacketStep(id, packet, outcome, <<>>)
    /\ UNCHANGED <<npublishes, subscribes>>

Death(id) ==
    /\ LET r2 == HandleDeath(Router, id) IN
       /\ Apply(r2)
       /\ session' = SessionAfter(Router, r2, <<>>, "Death")
       /\ owed' = OwedAfter(r2, <<>>)
    /\ last' = Step("Death", id)
    /\ UNCHANGED <<router_rs, codec>>
    /\ UNCHANGED <<npublishes, nconnects, subscribes>>

\* The interval arm of the select: the fan-out tick.
Route ==
    /\ \E orders \in {o \in [DOMAIN active_connections ->
                               UNION {Orders(S) : S \in SUBSET Topics}] :
                        \A id \in DOMAIN active_connections :
                           o[id] \in Orders(DOMAIN active_connections[id].concrete_subscriptions)} :
          LET t == route(Router, orders) IN
          /\ Apply(t.router)
          /\ last' = [Step("Route", "") EXCEPT !.sent = t.sent, !.failed = t.failed]
    /\ UNCHANGED <<owed, session, npublishes, nconnects, subscribes, router_rs, codec>>

(***************************************************************************)
(* A call of CommitLog::get with a cursor and a count.                     *)
(***************************************************************************)
Get(topic, segment_id, log_offset, count) ==
    /\ last' = [Step("Get", "") EXCEPT
                   !.get = [topic |-> topic, segment_id |-> segment_id,
                            log_offset |-> log_offset, count |-> count,
                            messages |-> CommitLogGet(partitions, topic, segment_id,
                                                      log_offset, count)]]
    /\ UNCHANGED <<partitions, current_segment_id, active_connections,
                   inactive_connections, outbound, delivered, owed, session,
                   npublishes, nconnects, subscribes, router_rs, codec>>

(***************************************************************************)
(* Calls of the variable byte integer codec: one call, on any input, in a  *)
(* behaviour.                                                              *)
(***************************************************************************)
EncodeVariableByte(value, target) ==
    /\ codec.op = ""
    /\ codec' = [Call("encode_variable_byte") EXCEPT
                    !.value = value, !.target = target,
                    !.result = encode_variable_byte(value, target)]
    /\ UNCHANGED <<router_vars, router_rs>>

DecodeVariableByte(stream, build) ==
    /\ codec.op = ""
    /\ LET decoded == decode_variable_byte(stream, build) IN
       codec' = [Call("decode_variable_byte") EXCEPT
                    !.build = build, !.input = stream,
                    !.stream = decoded.bytes, !.result = decoded]
    /\ UNCHANGED <<router_vars, router_rs>>

(***************************************************************************)
(* Calls of mqtt_write and mqtt_read: one call in a behaviour.  A read is  *)
(* given a stream cut from an encoding: the first n bytes of it, or all of *)
(* it and the bytes that follow it on the wire.                            *)
(***************************************************************************)
MqttWrite(packet, target) ==
    /\ codec.op = ""
    /\ codec' = [Call("mqtt_write") EXCEPT
                    !.packet = packet, !.target = target,
                    !.result = mqtt_write(packet, target)]
    /\ UNCHANGED <<router_vars, router_rs>>

MqttRead(encoding, stream, build) ==
    /\ codec.op = ""
    /\ LET read == mqtt_read(stream, MaxPayloadSize, build) IN
       codec' = [Call("mqtt_read") EXCEPT
                    !.build = build, !.encoding = encoding, !.input = stream,
                    !.stream = read.stream, !.result = read.result]
    /\ UNCHANGED <<router_vars, router_rs>>

ExtractProperties(ident, value, stream, build) ==
    /\ codec.op = ""
    /\ LET result == extract_properties(stream, build) IN
       codec' = [Call("extract_properties") EXCEPT
                    !.build = build, !.value = ident, !.encoding = value,
                    !.input = stream, !.stream = result.bytes, !.result = result]
    /\ UNCHANGED <<router_vars, router_rs>>

(***************************************************************************)
(* The select loop of router.rs.  router_rs holds the Router and, beside   *)
(* it, the history of what it was given: the publishes admitted to         *)
(* fill_commitlog, in order, and the last message handled.                 *)
(***************************************************************************)
Router_rs == router_rs.router

Outcomes_router_rs(id, packet) ==
    IF id \in DOMAIN Router_rs.active_connections THEN StateOutcomes(packet) ELSE {"None"}

Connect_router_rs(id, clean_session) ==
    /\ router_rs' = [router_rs EXCEPT
          !.router = HandleConnect_router_rs(@, id, clean_session, NoWill),
          !.nconnects = @ + 1,
          !.nsubscribes = 0,
          !.last = Step_router_rs("Connect", id)]
    /\ UNCHANGED <<router_vars, codec>>

Publish_router_rs(id, topic, retain, size) ==
    /\ LET publish == [topic_name |-> topic, qos |-> 0, retain |-> retain,
                       payload_len |-> size, n |-> Len(router_rs.published) + 1]
           packet == [type |-> "Publish", qos |-> 0, publish |-> publish]
       IN  \E outcome \in Outcomes_router_rs(id, packet) :
              router_rs' = [router_rs EXCEPT
                  !.router = HandlePacket_router_rs(@, id, packet, outcome, topic, <<>>),
                  !.published = IF outcome = "Err" THEN @ ELSE Append(@, publish),
                  !.last = [Step_router_rs("Publish", id) EXCEPT !.error = (outcome = "Err")]]
    /\ UNCHANGED <<router_vars, codec>>

Subscribe_router_rs(id, filter, qos) ==
    /\ LET packet == [type |-> "Subscribe", qos |-> qos, topic_path |-> filter]
           r == Router_rs
       IN  \E outcome \in Outcomes_router_rs(id, packet) :
           \E last_wider \in (IF id \in DOMAIN r.active_connections
                                 /\ WiderFilters(r.active_connections[id], filter) # {}
                              THEN WiderFilters(r.active_connections[id], filter) ELSE {filter}) :
           \E order \in Orders(RetainedTopics(r, filter)) :
              router_rs' = [router_rs EXCEPT
                  !.router = HandlePacket_router_rs(@, id, packet, outcome, last_wider, order),
                  !.nsubscribes = @ + 1,
                  !.last = [Step_router_rs("Subscribe", id) EXCEPT
                               !.error = (outcome = "Err"),
                               !.topic_path = filter,
                               !.qos = qos,
                               !.retained_publishes = r.retained_publishes,
                               !.queue = r.tx[id].queue]]
    /\ UNCHANGED <<router_vars, codec>>

\* The interval arm of the select of router.rs.
Route_router_rs ==
    /\ LET r == Router_rs IN
       \E orders \in {o \in [DOMAIN r.active_connections ->
                               UNION {Orders(S) : S \in SUBSET Filters}] :
                        \A id \in DOMAIN r.active_connections :
                           o[id] \in Orders(DOMAIN r.active_connections[id].concrete_subscriptions)} :
          router_rs' = [router_rs EXCEPT
              !.router = route_router_rs(@, orders),
              !.last = Step_router_rs("Route", "")]
    /\ UNCHANGED <<router_vars, codec>>

\* The connection task takes the next router message off its channel.
Receive_router_rs(id) ==
    /\ Router_rs.tx[id].queue # <<>>
    /\ router_rs' = [router_rs EXCEPT
          !.router.tx[id].queue = Tail(@),
          !.last = Step_router_rs("Receive", id)]
    /\ UNCHANGED <<router_vars, codec>>

(***************************************************************************)
(* The connection task at the other end of an outbound channel.            *)
(***************************************************************************)
\* The connection task takes the next router message off its channel.
Receive(id) ==
    /\ id \in DOMAIN active_connections
    /\ outbound[id].queue # <<>>
    /\ outbound' = [outbound EXCEPT ![id].queue = Tail(@)]
    /\ last' = Step("Receive", id)
    /\ UNCHANGED <<partitions, current_segment_id, active_connections, inactive_connections,
                   delivered, owed, session, npublishes, nconnects, subscribes, router_rs, codec>>

\* The connection task ends and drops the receiver.
CloseReceiver(id) ==
    /\ id \in DOMAIN active_connections
    /\ ~outbound[id].closed
    /\ outbound' = [outbound EXCEPT ![id].closed = TRUE]
    /\ last' = Step("Close", id)
    /\ UNCHANGED <<partitions, current_segment_id, active_connections, inactive_connections,
                   delivered, owed, session, npublishes, nconnects, subscribes, router_rs, codec>>

(***************************************************************************)
(* Fan-out: a subscriber and a publisher with clean sessions.              *)
(***************************************************************************)
Subscriber == "c1"
Publisher == "c2"

NextFanOut ==
    \/ \E id \in ClientIds : nconnects < MaxFanOutConnects /\ Connect(id, TRUE, NoWill)
    \/ \E topic \in Topics :
          npublishes < MaxPublishes /\ Publisher \in DOMAIN active_connections /\ Publish(Publisher, topic, 0, 1)
    \/ \E filter \in Filters, qos \in QoSLevels : Subscribe(Subscriber, filter, qos)
    \/ Route
    \/ Receive(Subscriber)

SpecFanOut == Init /\ [][NextFanOut]_vars

(***************************************************************************)
(* Properties of the router.                                               *)
(***************************************************************************)
IsActive(id) == id \in DOMAIN active_connections

\* The outbound channel of id would take one more message.
HasRoom(id) == ~outbound[id].closed /\ Len(outbound[id].queue) < ChannelCapacity

\* The router has just run a fan-out tick that put nothing on id's channel
\* although the channel had room: the tick found nothing new for id.
IdleTick(id) == last.kind = "Route" /\ IsActive(id) /\ id \notin last.sent /\ HasRoom(id)

OnTopic(publishes, topic) == SelectSeq(publishes, LAMBDA p : p.topic_name = topic)

Copies(publishes, p) == Cardinality({i \in 1..Len(publishes) : publishes[i] = p})

RECURSIVE Flatten(_)
Flatten(segments) ==
    IF segments = <<>> THEN <<>> ELSE Head(segments).packets \o Flatten(Tail(segments))

\* Every publish appended to the topic's partition and still in it.
LogOf(topic) == IF topic \in DOMAIN partitions THEN Flatten(partitions[topic]) ELSE <<>>

\* The head segment of the topic's partition has been dropped.
Evicted(topic) == topic \in DOMAIN partitions /\ partitions[topic][1].id # 0

\* id has sent one Subscribe, for the concrete topic, and holds it.
HoldsOnly(id, topic) ==
    /\ IsActive(id)
    /\ Len(subscribes[id]) = 1
    /\ DOMAIN active_connections[id].concrete_subscriptions = {topic}
    /\ DOMAIN active_connections[id].wild_subscriptions = {}

\* C1: a connection with one concrete subscription on a topic, with no
\* eviction on that topic: once a tick finds nothing new for it, what was
\* sent to it on the topic is exactly the topic's publishes, each once, in
\* append order.
C1_ReceivesExactlyThePublishes ==
    \A id \in ClientIds, topic \in Topics :
        (HoldsOnly(id, topic) /\ ~Evicted(topic) /\ IdleTick(id))
            => OnTopic(delivered[id], topic) = LogOf(topic)

\* C2: the publishes on one topic placed on a connection's channel are in
\* the order they were appended: none comes after one appended later.
C2_DeliveredInAppendOrder ==
    \A id \in ClientIds :
        IsActive(id) =>
            \A i, j \in 1..Len(delivered[id]) :
                (i < j /\ delivered[id][i].topic_name = delivered[id][j].topic_name)
                    => delivered[id][i].n <= delivered[id][j].n

\* C3: a publish appended on a topic that matches a wildcard filter of an
\* active connection reaches that connection's channel: once a tick finds
\* nothing new for the connection, none is outstanding.
C3_WildcardSubscriberReceives ==
    \A id \in ClientIds :
        IdleTick(id) =>
            \A f \in DOMAIN active_connections[id].wild_subscriptions :
                \A k \in 1..Len(owed[id]) :
                    matches(owed[id][k].topic_name, f) => Copies(delivered[id], owed[id][k]) >= 1

\* id subscribed to a concrete filter and then to a wildcard filter that
\* matches it.
Overlapped(id) ==
    /\ IsActive(id)
    /\ Len(subscribes[id]) = 2
    /\ ~has_wildcards(subscribes[id][1].topic_path)
    /\ has_wildcards(subscribes[id][2].topic_path)
    /\ matches(subscribes[id][1].topic_path, subscribes[id][2].topic_path)

\* C4: after a concrete filter and then a wildcard filter that matches it,
\* the connection holds the wildcard alone, at the higher of the two QoS,
\* and receives each later publish on a matching topic exactly once.
C4_OverlapDeliversOnce ==
    \A id \in ClientIds :
        Overlapped(id) =>
            /\ active_connections[id].concrete_subscriptions = EmptyMap
            /\ DOMAIN active_connections[id].wild_subscriptions = {subscribes[id][2].topic_path}
            /\ \A f \in DOMAIN active_connections[id].wild_subscriptions :
                  active_connections[id].wild_subscriptions[f].qos =
                      Max(subscribes[id][1].qos, subscribes[id][2].qos)
            /\ IdleTick(id) =>
                  \A k \in 1..Len(owed[id]) : Copies(delivered[id], owed[id][k]) = 1

RECURSIVE IsSubSeq(_, _)
\* s can be had from t by dropping elements of t.
IsSubSeq(s, t) ==
    IF s = <<>> THEN TRUE
    ELSE IF t = <<>> THEN FALSE
    ELSE IF Head(s) = Head(t) THEN IsSubSeq(Tail(s), Tail(t))
    ELSE IsSubSeq(s, Tail(t))

\* The step just taken was a Connect of id.
Connected(id) == last.kind = "Connect" /\ last.id = id

\* C5: a persistent client that subscribed, left and came back with
\* clean_session = false: once a tick finds nothing new for it, every
\* publish appended on its topics while it was away has been sent to it,
\* in the order of appending.
C5_ResumedSessionReceivesMissed ==
    \A id \in ClientIds :
        (IsActive(id) /\ session[id].resumed /\ session[id].left = "Disconnect"
            /\ ~active_connections[id].state.clean_session /\ IdleTick(id))
            => IsSubSeq(session[id].missed, delivered[id])

\* C6: a Connect with clean_session = false for an id that has an inactive
\* entry makes the id active with the stored session state, removes the
\* inactive entry, and replies Pending with the session's pending queue.
C6_ResumeRepliesPending ==
    [][\A id \in ClientIds :
          (last'.kind = "Connect" /\ last'.id = id /\ ~last'.clean_session
              /\ id \in DOMAIN inactive_connections)
              => /\ id \in DOMAIN active_connections'
                 /\ active_connections'[id].state = inactive_connections[id].state
                 /\ id \notin DOMAIN inactive_connections'
                 /\ outbound'[id].queue =
                       <<Pending(inactive_connections[id].state.outgoing_publishes)>>]_vars

\* C7: after a Connect with clean_session = true the id has no inactive
\* entry, is active with a fresh session state and empty subscription
\* maps, and its new handle holds exactly one reply, Pending(empty).
C7_CleanConnectStartsFresh ==
    \A id \in ClientIds :
        (Connected(id) /\ last.clean_session)
            => /\ id \notin DOMAIN inactive_connections
               /\ IsActive(id)
               /\ \E will \in Wills :
                     active_connections[id] = NewActiveConnection(NewMqttState(TRUE, will))
               /\ outbound[id].queue = <<Pending(<<>>)>>

\* A clean Connect has just replaced a stored session of the same id.
C7_CleanConnectOverStoredSession ==
    \E id \in ClientIds :
        /\ Connected(id) /\ last.clean_session /\ last.stored
        /\ IsActive(id)
        /\ outbound[id].queue = <<Pending(<<>>)>>

\* C8: every inactive entry is a persistent session: its clean_session
\* flag is false.
C8_InactiveIsPersistent ==
    \A id \in DOMAIN inactive_connections : ~inactive_connections[id].state.clean_session

\* C9: a Disconnect or a Death for an active connection removes it from
\* active, and leaves it in inactive exactly when its clean_session flag
\* is false.
C9_LeavingStoresPersistent ==
    [][\A id \in ClientIds :
          (last'.kind \in {"Disconnect", "Death"} /\ last'.id = id
              /\ id \in DOMAIN active_connections)
              => /\ id \notin DOMAIN active_connections'
                 /\ id \in DOMAIN inactive_connections'
                       <=> ~active_connections[id].state.clean_session]_vars

\* The publishes on a will's topic, at the will's QoS, in a partition map.
WillPublishes(parts, will) ==
    IF will.topic \in DOMAIN parts
    THEN SelectSeq(Flatten(parts[will.topic]), LAMBDA p : p.qos = will.qos)
    ELSE <<>>

\* C10: a Death for an active connection that has a will appends the will
\* publish to the commit log, once, in the step that deactivates it.
C10_DeathPublishesWill ==
    [][\A id \in ClientIds :
          (last'.kind = "Death" /\ last'.id = id /\ id \in DOMAIN active_connections
              /\ active_connections[id].state.will.present)
              => Len(WillPublishes(partitions', active_connections[id].state.will))
                    = Len(WillPublishes(partitions, active_connections[id].state.will)) + 1]_vars

\* C11: whenever a try-send to a connection's channel fails, in a reply or
\* in a tick, the connection has left active when the step ends, and a
\* persistent session is then in inactive with its state.
C11_FailedSendEvicts ==
    [][\A id \in last'.failed :
          /\ id \notin DOMAIN active_connections'
          /\ ~active_connections[id].state.clean_session
                => /\ id \in DOMAIN inactive_connections'
                   /\ inactive_connections'[id].state = active_connections[id].state]_vars

\* C12: when the session state rejects a packet of an active connection
\* with an error other than an unsolicited ack, the step removes that
\* connection from active and changes nothing else: the commit log, the
\* other connections, the inactive sessions and every channel stay as they
\* were.
C12_StateErrorDropsOnlyTheSender ==
    [][\A id \in ClientIds :
          (last'.error /\ last'.id = id /\ id \in DOMAIN active_connections)
              => /\ active_connections' = MapRemove(active_connections, id)
                 /\ partitions' = partitions
                 /\ current_segment_id' = current_segment_id
                 /\ inactive_connections' = inactive_connections
                 /\ outbound' = outbound
                 /\ delivered' = delivered]_vars

\* The session state has just rejected a Publish or a Subscribe of a
\* connection while another connection was active, and the router went on.
C12_RejectedBesideAnother ==
    /\ last.error /\ last.kind \in {"Publish", "Subscribe"}
    /\ last.id \notin DOMAIN active_connections
    /\ active_connections # EmptyMap

\* C13: a Connect for an id that is already active replaces the handle in
\* active by the new one, and the displaced connection's channel got a
\* SessionTakenOver indication as its last message.
C13_TakeoverNotifiesDisplaced ==
    \A id \in ClientIds :
        (Connected(id) /\ last.displaced.some)
            => /\ IsActive(id)
               /\ \A i \in 1..Len(outbound[id].queue) : outbound[id].queue[i].type = "Pending"
               /\ last.displaced.queue # <<>>
               /\ last.displaced.queue[Len(last.displaced.queue)].type = "SessionTakenOver"

\* C14: no two distinct filters a connection holds, across its concrete
\* and wild maps, overlap by containment: neither matches the other.
C14_NoContainedFilters ==
    \A id \in DOMAIN active_connections :
        \A f, g \in SubscribedFilters(active_connections[id]) :
            f # g => ~matches(f, g)

\* C15: no filter is a key of both subscription maps of a connection;
\* every key of wild_subscriptions has a wildcard and no key of
\* concrete_subscriptions has one.
C15_MapsSplitByWildcard ==
    \A id \in DOMAIN active_connections :
        LET concrete == DOMAIN active_connections[id].concrete_subscriptions
            wild == DOMAIN active_connections[id].wild_subscriptions
        IN  /\ concrete \cap wild = {}
            /\ \A f \in wild : has_wildcards(f)
            /\ \A f \in concrete : ~has_wildcards(f)

\* A connection holds a concrete and a wildcard filter at once, right after
\* a Subscribe that was applied to it.
C15_BothMapsHeld ==
    \E id \in DOMAIN active_connections :
        /\ active_connections[id].concrete_subscriptions # EmptyMap
        /\ active_connections[id].wild_subscriptions # EmptyMap
        /\ last.kind = "Subscribe" /\ last.id = id /\ ~last.error
        /\ Len(subscribes[id]) = 2

\* An Unsubscribe of id was the step taken last, and was applied.
Unsubscribed(id) ==
    last.kind = "Unsubscribe" /\ last.id = id /\ ~last.error /\ IsActive(id)

\* C16: after an Unsubscribe naming a filter is applied to an active
\* connection, the filter is a key of neither subscription map, and the
\* tick that follows sends the connection no publish for it.
C16_UnsubscribeRemovesFilter ==
    [][\A id \in ClientIds :
          /\ Unsubscribed(id)' => last'.topic_path \notin SubscribedFilters(active_connections'[id])
          /\ (Unsubscribed(id) /\ last'.kind = "Route")
                => OnTopic(delivered'[id], last.topic_path) = OnTopic(delivered[id], last.topic_path)]_vars

(***************************************************************************)
(* Sessions: the subscriber's connection comes and goes.                   *)
(***************************************************************************)
Next ==
    \/ \E clean_session \in BOOLEAN, will \in Wills :
          nconnects < MaxConnects /\ Connect(Subscriber, clean_session, will)
    \/ nconnects < MaxConnects /\ Connect(Publisher, TRUE, NoWill)
    \/ npublishes < MaxSessionPublishes /\ Publisher \in DOMAIN active_connections /\ Publish(Publisher, <<"a", "c">>, 0, 1)
    \/ \E qos \in QoSLevels : Subscribe(Subscriber, <<"a", "c">>, qos)
    \/ Disconnect(Subscriber)
    \/ PubAck(Subscriber)
    \/ Death(Subscriber)
    \/ Route
    \/ Receive(Subscriber)
    \/ CloseReceiver(Subscriber)

Spec == Init /\ [][Next]_vars

(***************************************************************************)
(* Lifecycle: one client's connection comes and goes, with nothing         *)
(* published.                                                              *)
(***************************************************************************)
NextLifecycle ==
    \/ \E clean_session \in BOOLEAN, will \in Wills :
          nconnects < MaxConnects /\ Connect(Subscriber, clean_session, will)
    \/ \E qos \in QoSLevels : Subscribe(Subscriber, <<"a", "c">>, qos)
    \/ Disconnect(Subscriber)
    \/ PubAck(Subscriber)
    \/ Death(Subscriber)
    \/ Receive(Subscriber)
    \/ CloseReceiver(Subscriber)

SpecLifecycle == Init /\ [][NextLifecycle]_vars

(***************************************************************************)
(* Subscriptions: one subscriber's filters come and go.                    *)
(***************************************************************************)
OverlapFilters == Filters \cup {<<"+", "+">>}

NextSubscriptions ==
    \/ nconnects < MaxFanOutConnects /\ Connect(Subscriber, TRUE, NoWill)
    \/ \E filter \in OverlapFilters, qos \in QoSLevels : Subscribe(Subscriber, filter, qos)
    \/ \E filter \in OverlapFilters : Unsubscribe(Subscriber, filter)
    \/ Receive(Subscriber)

SpecSubscriptions == Init /\ [][NextSubscriptions]_vars

(***************************************************************************)
(* Packets: a subscriber and a publisher whose packets the session state   *)
(* may reject.                                                             *)
(***************************************************************************)
NextPackets ==
    \/ \E id \in ClientIds : nconnects < MaxFanOutConnects /\ Connect(id, TRUE, NoWill)
    \/ \E qos \in QoSLevels : Subscribe(Subscriber, <<"a", "c">>, qos)
    \/ /\ npublishes < MaxSessionPublishes
       /\ Publisher \in DOMAIN active_connections
       /\ Publish(Publisher, <<"a", "c">>, 0, 1)
    \/ PubAck(Subscriber)
    \/ Receive(Subscriber)

SpecPackets == Init /\ [][NextPackets]_vars

(***************************************************************************)
(* Unsubscribing: a subscriber adds and removes filters while a publisher  *)
(* publishes and the tick runs.                                            *)
(***************************************************************************)
NextUnsubscribe ==
    \/ \E id \in ClientIds : nconnects < MaxFanOutConnects /\ Connect(id, TRUE, NoWill)
    \/ \E filter \in {<<"a", "c">>, <<"a", "+">>} : Subscribe(Subscriber, filter, 0)
    \/ \E filter \in {<<"a", "c">>, <<"a", "+">>} : Unsubscribe(Subscriber, filter)
    \/ /\ npublishes < MaxSessionPublishes
       /\ Publisher \in DOMAIN active_connections
       /\ Publish(Publisher, <<"a", "c">>, 0, 1)
    \/ Route
    \/ Receive(Subscriber)

SpecUnsubscribe == Init /\ [][NextUnsubscribe]_vars

(***************************************************************************)
(* Properties of the retained publishes of router.rs.                      *)
(***************************************************************************)
\* The positions in the publish history of the retain=true publishes on a
\* topic.
RetainedOn(topic) ==
    {i \in 1..Len(router_rs.published) :
        router_rs.published[i].retain /\ router_rs.published[i].topic_name = topic}

MostRecent(S) == CHOOSE i \in S : \A j \in S : j <= i

\* C17: the retained entry for a topic is the most recent retain=true
\* publish on that topic when that publish has a non-empty payload, and
\* there is no entry when that publish has an empty payload or there is no
\* such publish; publishes with retain=false and publishes on other topics
\* leave the entry as it was.
C17_RetainedIsLatestNonEmpty ==
    \A topic \in Topics :
        IF RetainedOn(topic) # {}
              /\ router_rs.published[MostRecent(RetainedOn(topic))].payload_len > 0
        THEN /\ topic \in DOMAIN Router_rs.retained_publishes
             /\ Router_rs.retained_publishes[topic] =
                    router_rs.published[MostRecent(RetainedOn(topic))]
        ELSE topic \notin DOMAIN Router_rs.retained_publishes

\* A topic's entry was set, cleared by an empty retained publish, and then
\* followed by a publish with retain=false on the same topic.
C17_ClearedThenUnretained ==
    /\ Len(router_rs.published) = 3
    /\ \A i \in 1..3 : router_rs.published[i].topic_name = <<"a", "b">>
    /\ router_rs.published[1].retain /\ router_rs.published[1].payload_len > 0
    /\ router_rs.published[2].retain /\ router_rs.published[2].payload_len = 0
    /\ ~router_rs.published[3].retain /\ router_rs.published[3].payload_len > 0
    /\ <<"a", "b">> \notin DOMAIN Router_rs.retained_publishes
    /\ <<"a", "c">> \notin DOMAIN Router_rs.retained_publishes

\* C18: when a Subscribe is handled, every retained publish whose topic
\* matches the filter is on the subscriber's channel once the Subscribe has
\* been handled, behind what the channel held before.
C18_SubscribeSendsRetained ==
    \A id \in ClientIds :
        LET l == router_rs.last
            queue == Router_rs.tx[id].queue
        IN  (/\ l.kind = "Subscribe" /\ l.id = id /\ ~l.error
             /\ id \in DOMAIN Router_rs.active_connections
             /\ l.queue = <<>>)
            => \A topic \in DOMAIN l.retained_publishes :
                  matches(topic, l.topic_path)
                     => \E i \in 1..Len(queue) :
                           /\ queue[i].type = "Publishes"
                           /\ \E j \in 1..Len(queue[i].packets) :
                                 queue[i].packets[j].n = l.retained_publishes[topic].n

(***************************************************************************)
(* The router of router.rs with one subscriber and one publisher of        *)
(* retained publishes.                                                     *)
(***************************************************************************)
NextRetained ==
    \/ \E id \in ClientIds :
          /\ router_rs.nconnects < MaxFanOutConnects
          /\ id \notin DOMAIN Router_rs.active_connections
          /\ Connect_router_rs(id, TRUE)
    \/ \E topic \in Topics, retain \in BOOLEAN, size \in {0, 1} :
          /\ Len(router_rs.published) < MaxSessionPublishes
          /\ Publisher \in DOMAIN Router_rs.active_connections
          /\ Publish_router_rs(Publisher, topic, retain, size)
    \/ \E filter \in Filters :
          /\ router_rs.nsubscribes < MaxSubscribes
          /\ Subscriber \in DOMAIN Router_rs.active_connections
          /\ Subscribe_router_rs(Subscriber, filter, 1)
    \/ Route_router_rs
    \/ Receive_router_rs(Subscriber)

SpecRetained == Init /\ [][NextRetained]_vars

(***************************************************************************)
(* The router of router.rs with one publisher: the store of retained       *)
(* publishes under every sequence of publishes.                            *)
(***************************************************************************)
NextRetainedStore ==
    \/ /\ router_rs.nconnects < 1
       /\ Connect_router_rs(Publisher, TRUE)
    \/ \E topic \in Topics, retain \in BOOLEAN, size \in {0, 1} :
          /\ Len(router_rs.published) < MaxRetainedPublishes
          /\ Publisher \in DOMAIN Router_rs.active_connections
          /\ Publish_router_rs(Publisher, topic, retain, size)
    \/ Route_router_rs
    \/ Receive_router_rs(Publisher)

SpecRetainedStore == Init /\ [][NextRetainedStore]_vars

(***************************************************************************)
(* Properties of the commit log.                                           *)
(***************************************************************************)
\* C19: every partition holds at most SegmentsPerPartition segments, and
\* a fill that drops a segment drops the first one of the partition: what
\* stays is the rest of the partition, in order, with the segments before
\* the last one as they were.
C19_AtMostKSegmentsHeadDropped ==
    [][\A topic \in DOMAIN partitions' :
          /\ Len(partitions'[topic]) <= SegmentsPerPartition
          /\ topic \in DOMAIN partitions
                => LET old == partitions[topic]
                       new == partitions'[topic]
                   IN  \E dropped \in {0, 1} :
                          /\ Len(new) >= Len(old) - dropped
                          /\ \A i \in 1..(Len(old) - dropped) :
                                /\ new[i].id = old[i + dropped].id
                                /\ i + dropped < Len(old) => new[i] = old[i + dropped]]_vars

\* A fill has dropped a segment of a partition that was at its limit.
C19_DroppedAtLimit ==
    \E topic \in DOMAIN partitions :
        /\ Len(partitions[topic]) = SegmentsPerPartition
        /\ partitions[topic][1].id # 0
        /\ last.kind = "Publish"

\* The publishes of a partition at or after a cursor.
RECURSIVE AtOrAfter(_, _, _)
AtOrAfter(segments, segment_id, log_offset) ==
    IF segments = <<>> THEN <<>>
    ELSE LET segment == Head(segments)
             here == IF segment.id < segment_id THEN <<>>
                     ELSE IF segment.id = segment_id
                     THEN SubSeq(segment.packets, log_offset + 1, Len(segment.packets))
                     ELSE segment.packets
         IN  here \o AtOrAfter(Tail(segments), segment_id, log_offset)

\* C20: CommitLog::get returns the first count publishes at or after the
\* cursor, or all of them when they are fewer, in order and without gaps,
\* and returns None when the topic has no partition or nothing is at or
\* after the cursor.
C20_GetReturnsFirstCount ==
    last.kind = "Get"
        => LET g == last.get
               expected == IF g.topic \in DOMAIN partitions
                           THEN Take(AtOrAfter(partitions[g.topic], g.segment_id, g.log_offset),
                                     g.count)
                           ELSE <<>>
           IN  /\ g.messages.some = (expected # <<>>)
               /\ g.messages.packets = expected

\* C21: CommitLog::get with a cursor whose segment id is lower than the id
\* of the partition's first segment returns what get returns for the cursor
\* (id of the first segment, 0), whatever log offset the cursor carries.
C21_StaleCursorClampedToHead ==
    (/\ last.kind = "Get"
     /\ last.get.topic \in DOMAIN partitions
     /\ last.get.segment_id < partitions[last.get.topic][1].id)
        => last.get.messages =
              CommitLogGet(partitions, last.get.topic,
                           partitions[last.get.topic][1].id, 0, last.get.count)

(***************************************************************************)
(* The commit log under the publishes of one publisher.                    *)
(***************************************************************************)
NextCommitLog ==
    \/ /\ nconnects < MaxFanOutConnects
       /\ Publisher \notin DOMAIN active_connections
       /\ Connect(Publisher, TRUE, NoWill)
    \/ \E topic \in Topics, size \in 1..MaxSegmentSize :
          /\ npublishes < MaxLogPublishes
          /\ Publisher \in DOMAIN active_connections
          /\ Publish(Publisher, topic, 0, size)
    \/ Receive(Publisher)

SpecCommitLog == Init /\ [][NextCommitLog]_vars

\* The same with calls of CommitLog::get between the publishes.
NextCommitLogGet ==
    \/ /\ nconnects < 1
       /\ Connect(Publisher, TRUE, NoWill)
    \/ \E topic \in Topics, size \in 1..MaxSegmentSize :
          /\ npublishes < MaxPublishes
          /\ Publisher \in DOMAIN active_connections
          /\ Publish(Publisher, topic, 0, size)
    \/ \E topic \in Topics, segment_id \in 0..current_segment_id,
          log_offset \in 0..MaxSegmentSize, count \in 1..BatchCount :
          Get(topic, segment_id, log_offset, count)

SpecCommitLogGet == Init /\ [][NextCommitLogGet]_vars

(***************************************************************************)
(* Properties of the variable byte integer codec.                          *)
(***************************************************************************)
\* The shortest base-128 encoding of a value, low group first.
RECURSIVE MinimalEncoding(_)
MinimalEncoding(value) ==
    IF value < 128 THEN <<value>>
    ELSE <<128 + (value % 128)>> \o MinimalEncoding(value \div 128)

\* The value of the first n bytes of a buffer read as base-128 groups.
RECURSIVE GroupsValue(_, _)
GroupsValue(stream, n) ==
    IF n = 0 THEN 0 ELSE (Head(stream) % 128) + 128 * GroupsValue(Tail(stream), n - 1)

\* C23: encode_variable_byte of a value in [0, 268435455] is the shortest
\* base-128 encoding of the value, one byte per group of seven bits and a
\* single zero byte for zero, and decode_variable_byte of it returns the
\* value and the number of bytes of the encoding.
C23_VariableByteRoundTrip ==
    codec.op = "encode_variable_byte"
        => /\ codec.result.kind = "Ok"
           /\ codec.result.bytes = MinimalEncoding(codec.value)
           /\ \A build \in Builds :
                 LET decoded == decode_variable_byte(codec.result.bytes, build) IN
                 /\ decoded.kind = "Ok"
                 /\ decoded.value = codec.value
                 /\ decoded.byte_len = Len(codec.result.bytes)

\* The position of the first byte without the continuation bit, or 0.
Terminator(stream) ==
    IF \E i \in 1..Len(stream) : stream[i] < 128
    THEN CHOOSE i \in 1..Len(stream) : stream[i] < 128 /\ \A j \in 1..(i - 1) : stream[j] >= 128
    ELSE 0

\* C24: decode_variable_byte returns the value of every encoding of one to
\* four bytes; when the fourth byte still has the continuation bit it
\* returns MalformedVariableByteInteger, and does so without overflowing
\* its 32-bit arithmetic; it never returns a value above 268435455.
C24_DecodeRejectsFifthByte ==
    codec.op = "decode_variable_byte"
        => /\ Terminator(codec.input) \in 1..4
                => /\ codec.result.kind = "Ok"
                   /\ codec.result.value = GroupsValue(codec.input, Terminator(codec.input))
                   /\ codec.result.byte_len = Terminator(codec.input)
           /\ (Len(codec.input) >= 4 /\ \A i \in 1..4 : codec.input[i] >= 128)
                => /\ codec.result.kind = "Err"
                   /\ codec.result.error = "MalformedVariableByteInteger"
                   /\ ~codec.result.overflow
           /\ codec.result.kind = "Ok" => codec.result.value <= 268435455

(***************************************************************************)
(* The variable byte integer codec over values made of the groups 0, 1,    *)
(* 16 and 127 and over buffers of up to MaxDecodeLen bytes, each the       *)
(* lowest or the highest byte with or without the continuation bit.        *)
(***************************************************************************)
Groups == {0, 1, 16, 127}

VariableByteValues ==
    {g1 + 128 * g2 + 128 * 128 * g3 + 128 * 128 * 128 * g4 : g1, g2, g3, g4 \in Groups}

RECURSIVE Buffers(_, _)
Buffers(bytes, len) ==
    IF len = 0 THEN {<<>>}
    ELSE LET shorter == Buffers(bytes, len - 1)
         IN  shorter \cup {<<b>> \o s : b \in bytes, s \in {t \in shorter : Len(t) = len - 1}}

NextVariableByte ==
    \/ \E value \in VariableByteValues, target \in Targets : EncodeVariableByte(value, target)
    \/ \E stream \in Buffers({1, 127, 128, 255}, MaxDecodeLen), build \in Builds :
          DecodeVariableByte(stream, build)

SpecVariableByte == Init /\ [][NextVariableByte]_vars

(***************************************************************************)
(* Properties of mqtt_read and mqtt_write.                                 *)
(***************************************************************************)
\* C22: mqtt_write of a valid packet of any type succeeds, and mqtt_read of
\* the bytes it produced returns that packet: a packet of the same type,
\* assembled from all of the bytes.
C22_WriteThenReadReturnsPacket ==
    codec.op = "mqtt_write"
        => /\ codec.result.kind = "Ok"
           /\ \A build \in Builds :
                 LET read == mqtt_read(codec.result.bytes, MaxPayloadSize, build) IN
                 /\ read.result.kind = "Ok"
                 /\ read.result.packet.type = codec.packet.type
                 /\ read.result.packet.bytes = codec.result.bytes

\* The stream given to mqtt_read was a proper prefix of the encoding.
ReadPrefix == codec.op = "mqtt_read" /\ Len(codec.input) < Len(codec.encoding)

\* The stream given to mqtt_read held the encoding and what follows it.
ReadComplete == codec.op = "mqtt_read" /\ Len(codec.input) >= Len(codec.encoding)

\* C25: mqtt_read of a proper prefix of a valid encoding, the empty one,
\* the first byte alone and one that ends inside the remaining length
\* included, returns UnexpectedEof.
C25_PrefixReturnsUnexpectedEof ==
    ReadPrefix => codec.result.kind = "Err" /\ codec.result.error = "UnexpectedEof"

\* C26: when mqtt_read returns UnexpectedEof the stream holds what it held
\* before the call, and mqtt_read of it with the missing bytes appended
\* returns the packet.
C26_UnexpectedEofKeepsStream ==
    (codec.op = "mqtt_read" /\ codec.result.kind = "Err"
        /\ codec.result.error = "UnexpectedEof")
        => /\ codec.stream = codec.input
           /\ ReadPrefix =>
                 LET missing == SubSeq(codec.encoding, Len(codec.input) + 1, Len(codec.encoding))
                     read == mqtt_read(codec.stream \o missing, MaxPayloadSize, codec.build)
                 IN  /\ read.result.kind = "Ok"
                     /\ read.result.packet.bytes = codec.encoding

\* C27: mqtt_read of a stream that starts with a complete packet succeeds,
\* the bytes it hands to the assembler are the packet's header_len +
\* remaining_len bytes from the fixed header on, and the bytes that follow
\* are what is left in the stream.
C27_ReadTakesExactlyOnePacket ==
    ReadComplete
        => /\ codec.result.kind = "Ok"
           /\ codec.result.packet.bytes = codec.encoding
           /\ codec.stream = SubSeq(codec.input, Len(codec.encoding) + 1, Len(codec.input))

(***************************************************************************)
(* mqtt_write over one packet of every type, and mqtt_read over the        *)
(* prefixes and the continuations of the encodings of a PingReq, a PubAck, *)
(* a Publish, a Connect and a Publish whose remaining length takes two     *)
(* bytes.                                                                  *)
(***************************************************************************)
ValidPackets ==
    {[type |-> PacketTypes[t], keep_alive |-> IF t = 1 THEN k ELSE 0] :
        t \in 1..15, k \in {0, 60, 65535}}

PingReqEncoding == <<192, 0>>
PubAckEncoding == <<64, 2, 0, 10>>
PublishEncoding == <<48, 6, 0, 1, 97, 0, 1, 2>>
ConnectEncoding ==
    <<16, 22, 0, 4, 77, 81, 84, 84, 5, 2, 0, 60, 0, 0, 9,
      99, 108, 105, 101, 110, 116, 45, 105, 100>>
LongPublishEncoding ==
    <<48, 128 + ((LongPayloadLen + 7) % 128), (LongPayloadLen + 7) \div 128, 0, 4, 97, 47, 98, 99, 0>>
        \o [i \in 1..LongPayloadLen |-> i % 256]

ValidEncodings ==
    {PingReqEncoding, PubAckEncoding, PublishEncoding, ConnectEncoding, LongPublishEncoding}

Continuations == {<<>>, <<192, 0>>, <<222, 173, 190, 239>>}

NextReadWrite ==
    \/ \E packet \in ValidPackets, target \in Targets : MqttWrite(packet, target)
    \/ \E encoding \in ValidEncodings, n \in 0..MaxPayloadSize, build \in Builds :
          /\ n < Len(encoding)
          /\ MqttRead(encoding, SubSeq(encoding, 1, n), build)
    \/ \E encoding \in ValidEncodings, following \in Continuations, build \in Builds :
          MqttRead(encoding, encoding \o following, build)

SpecReadWrite == Init /\ [][NextReadWrite]_vars

(***************************************************************************)
(* The property decoder against the property table.                        *)
(***************************************************************************)
Property(field, type) == [field |-> field, type |-> type]

\* The property table: the identifiers, the field each one is read into and
\* the wire type of its value.
PropertyTable ==
       (1 :> Property("payload_format_indicator", "byte"))
    @@ (2 :> Property("message_expiry_interval", "u32"))
    @@ (3 :> Property("content_type", "utf8"))
    @@ (8 :> Property("response_topic", "utf8"))
    @@ (9 :> Property("correlation_data", "binary"))
    @@ (11 :> Property("subscription_identifier", "varbyte"))
    @@ (17 :> Property("session_expiry_interval", "u32"))
    @@ (18 :> Property("assigned_client_identifier", "utf8"))
    @@ (19 :> Property("server_keep_alive", "u16"))
    @@ (21 :> Property("authentication_method", "utf8"))
    @@ (22 :> Property("authentication_data", "binary"))
    @@ (23 :> Property("request_problem_info", "byte"))
    @@ (24 :> Property("will_delay_interval", "u32"))
    @@ (25 :> Property("request_response_info", "byte"))
    @@ (26 :> Property("response_info", "utf8"))
    @@ (28 :> Property("server_info", "utf8"))
    @@ (31 :> Property("reason_string", "utf8"))
    @@ (33 :> Property("receive_maximum", "u16"))
    @@ (34 :> Property("topic_alias_maximum", "u16"))
    @@ (35 :> Property("topic_alias", "u16"))
    @@ (36 :> Property("maximum_qos", "byte"))
    @@ (37 :> Property("retain_available", "byte"))
    @@ (38 :> Property("user_property", "utf8_pair"))
    @@ (39 :> Property("maximum_packet_size", "u32"))
    @@ (40 :> Property("wildcard_subscription_available", "byte"))
    @@ (41 :> Property("subscription_identifier_available", "byte"))
    @@ (42 :> Property("shared_subscription_available", "byte"))

\* Well-formed values of each wire type, as they are on the wire.
WireValues ==
    [byte |-> {<<0>>, <<1>>},
     u16 |-> {<<0, 60>>, <<1, 0>>},
     u32 |-> {<<0, 0, 0, 5>>, <<1, 0, 0, 0>>},
     utf8 |-> {<<0, 0>>, <<0, 1, 97>>},
     binary |-> {<<0, 0>>, <<0, 2, 1, 2>>},
     varbyte |-> {<<5>>, <<128, 1>>},
     utf8_pair |-> {<<0, 0, 0, 0>>, <<0, 1, 107, 0, 1, 118>>}]

\* The value that the bytes of a well-formed value of a wire type stand for.
WireValue(type, bytes) ==
    CASE type = "byte" -> bytes[1]
      [] type = "u16" -> get_u16(bytes)
      [] type = "u32" -> get_u32(bytes)
      [] type = "varbyte" ->
            LET value == decode_variable_byte(bytes, "release").value
            IN  [hi |-> value \div 65536, lo |-> value % 65536]
      [] type \in {"utf8", "binary"} -> advance(bytes, 2)
      [] type = "utf8_pair" ->
            LET klen == get_u16(bytes) IN
            <<SubSeq(bytes, 3, 2 + klen), advance(bytes, 4 + klen)>>

\* C28: extract_properties of a block that holds one property returns the
\* properties with the value read into the field of the identifier, by the
\* wire type of the property table, when the identifier is one of the
\* table's; for any other identifier it returns InvalidProperty.
C28_PropertiesDecodedByTable ==
    codec.op = "extract_properties"
        => IF codec.value \in DOMAIN PropertyTable
           THEN /\ codec.result.kind = "Ok"
                /\ codec.result.properties =
                      <<[NoProperties EXCEPT ![PropertyTable[codec.value].field] =
                            <<WireValue(PropertyTable[codec.value].type, codec.encoding)>>]>>
           ELSE /\ codec.result.kind = "Err"
                /\ codec.result.error = "InvalidProperty"

(***************************************************************************)
(* extract_properties over the blocks of one property: every identifier up *)
(* to MaxPropertyId with a well-formed value, of the table's wire type     *)
(* when the table has the identifier, alone or before the bytes of a       *)
(* payload.                                                                *)
(***************************************************************************)
MaxPropertyId == 43

\* The property block: its length, the identifier and the value.
PropertyBlock(ident, value) == <<1 + Len(value)>> \o <<ident>> \o value

Payloads == {<<>>, <<0, 7>>}

NextProperties ==
    \E ident \in 0..MaxPropertyId, type \in DOMAIN WireValues, build \in Builds :
       \E value \in WireValues[type], payload \in Payloads :
          /\ ident \in DOMAIN PropertyTable => type = PropertyTable[ident].type
          /\ ExtractProperties(ident, value, PropertyBlock(ident, value) \o payload, build)

SpecProperties == Init /\ [][NextProperties]_vars

\* C35: extract_properties on a block of declared length L returns an error
\* or takes exactly the length prefix and L bytes off the stream; it never
\* panics, and prop_length never goes below zero.
C35_ConsumesDeclaredLength ==
    codec.op = "extract_properties"
        => /\ codec.result.kind \in {"Ok", "Err"}
           /\ ~codec.result.overflow
           /\ codec.result.kind = "Ok"
                 => Len(codec.input) - Len(codec.stream) = 1 + codec.input[1]

(***************************************************************************)
(* The fan-out tick over two subscribers.                                  *)
(***************************************************************************)
\* The batch that the tick reads for the subscription of id to a filter.
Batch(id, filter) ==
    LET offset == active_connections[id].concrete_subscriptions[filter].offset
    IN  CommitLogGet(partitions, filter, offset[1], offset[2], BatchCount)

\* The subscriptions of id for which the tick has a batch.
Offered(id) ==
    {filter \in DOMAIN active_connections[id].concrete_subscriptions : Batch(id, filter).some}

\* The messages that the outbound channel of id takes before try_send fails.
Room(id) == IF outbound[id].closed THEN 0 ELSE ChannelCapacity - Len(outbound[id].queue)

\* The messages that the step put on the outbound channel of id.
Placed(id) ==
    SubSeq(outbound'[id].queue, Len(outbound[id].queue) + 1, Len(outbound'[id].queue))

\* The orders in which a tick may visit the subscriptions of the connections:
\* a tick can be taken when there is one.
TickOrders ==
    {o \in [DOMAIN active_connections -> UNION {Orders(S) : S \in SUBSET Topics}] :
        \A id \in DOMAIN active_connections :
           o[id] \in Orders(DOMAIN active_connections[id].concrete_subscriptions)}

\* C29: a fan-out tick can be taken whatever the channels hold, and it puts
\* on the channel of every connection as many of the batches of its
\* subscriptions as the channel has room for, whether or not the channel of
\* another connection is full or closed.
C29_TickNeverWaits ==
    [][/\ TickOrders # {}
       /\ last'.kind = "Route" =>
             \A id \in DOMAIN active_connections :
                /\ Len(Placed(id)) = IF Cardinality(Offered(id)) < Room(id)
                                     THEN Cardinality(Offered(id)) ELSE Room(id)
                /\ \A i \in 1..Len(Placed(id)) :
                      \E filter \in Offered(id) : Placed(id)[i] = Packets(Batch(id, filter).packets)
                /\ outbound'[id].queue = outbound[id].queue \o Placed(id)]_vars

\* A tick in which the channel of one connection refused a batch and the
\* channel of another took one.
C29_RefusedAndSent ==
    /\ last.kind = "Route"
    /\ \E a \in last.failed, b \in last.sent : a # b /\ a \notin last.sent

\* The cursor just after a publish of the partition of a topic: the id of
\* the segment that holds it and one more than its offset in the segment
\* (offsets count from 0, k from 1).
CursorAfter(topic, publish) ==
    LET segments == partitions[topic]
        holds(s, k) == k \in 1..Len(segments[s].packets) /\ segments[s].packets[k] = publish
        s == CHOOSE s \in 1..Len(segments) : \E k \in 1..MaxSegmentSize : holds(s, k)
        k == CHOOSE k \in 1..MaxSegmentSize : holds(s, k)
    IN  <<segments[s].id, k>>

\* C30: a tick moves the cursor of a subscription whose batch it put on the
\* channel to just after the last publish of the batch, and leaves the
\* cursor of every other subscription as it was.
C30_CursorMovesOnlyOnSend ==
    [][last'.kind = "Route" =>
          \A id \in DOMAIN active_connections :
             \A filter \in DOMAIN active_connections[id].concrete_subscriptions :
                LET logs == Batch(id, filter)
                    sent == /\ logs.some
                            /\ \E i \in 1..Len(Placed(id)) : Placed(id)[i] = Packets(logs.packets)
                    offset == active_connections'[id].concrete_subscriptions[filter].offset
                IN  IF sent
                    THEN offset = CursorAfter(filter, logs.packets[Len(logs.packets)])
                    ELSE offset = active_connections[id].concrete_subscriptions[filter].offset]_vars

\* A tick that sent the batch of one subscription of a connection and could
\* not send the batch of another: one cursor is past its batch, and the
\* other subscription still has its batch to offer.
C30_OneSentOneKept ==
    /\ last.kind = "Route"
    /\ \E id \in last.sent \cap last.failed :
          /\ \E filter \in DOMAIN active_connections[id].concrete_subscriptions :
                active_connections[id].concrete_subscriptions[filter].offset # <<0, 0>>
          /\ Offered(id) # {}

MaxTickPublishes == 2

\* The topic that the publisher subscribes to.
TickTopic == <<"a", "b">>

\* The client has sent no Subscribe for the filter since it connected.
NotSubscribed(id, filter) ==
    \A i \in 1..Len(subscribes[id]) : subscribes[id][i].topic_path # filter

NextTick ==
    \/ \E id \in ClientIds :
          /\ nconnects < Cardinality(ClientIds)
          /\ id \notin DOMAIN active_connections
          /\ Connect(id, TRUE, NoWill)
    \/ \E topic \in Topics : NotSubscribed(Subscriber, topic) /\ Subscribe(Subscriber, topic, 1)
    \/ NotSubscribed(Publisher, TickTopic) /\ Subscribe(Publisher, TickTopic, 1)
    \/ \E topic \in Topics :
          /\ npublishes < MaxTickPublishes
          /\ Publisher \in DOMAIN active_connections
          /\ Publish(Publisher, topic, 0, 1)
    \/ Route
    \/ \E id \in ClientIds : Receive(id)
    \/ CloseReceiver(Publisher)

SpecTick == Init /\ [][NextTick]_vars

(***************************************************************************)
(* The cursors of one subscriber, which is the publisher too, over         *)
(* partitions that grow past one segment.                                  *)
(***************************************************************************)
MaxCursorPublishes == 3

NextCursor ==
    \/ nconnects = 0 /\ Connect(Subscriber, TRUE, NoWill)
    \/ \E topic \in Topics : NotSubscribed(Subscriber, topic) /\ Subscribe(Subscriber, topic, 1)
    \/ \E topic \in Topics :
          /\ npublishes < MaxCursorPublishes
          /\ Subscriber \in DOMAIN active_connections
          /\ Publish(Subscriber, topic, 0, 1)
    \/ Route
    \/ Receive(Subscriber)
    \/ CloseReceiver(Subscriber)

SpecCursor == Init /\ [][NextCursor]_vars

(***************************************************************************)
(* Overlap resolution on a Subscribe.                                      *)
(***************************************************************************)
\* The subscription a connection holds for a filter.
SubscriptionOf(connection, filter) ==
    IF filter \in DOMAIN connection.concrete_subscriptions
    THEN connection.concrete_subscriptions[filter]
    ELSE connection.wild_subscriptions[filter]

\* The filters a connection holds that match a filter or are matched by it.
Overlapping(connection, filter) ==
    {e \in SubscribedFilters(connection) : matches(e, filter) \/ matches(filter, e)}

\* The step applies a Subscribe of id to its connection, which stays.
SubscribeApplied(id) ==
    /\ last'.kind = "Subscribe" /\ last'.id = id /\ ~last'.error
    /\ id \in DOMAIN active_connections /\ id \in DOMAIN active_connections'

C32_SegmentIdsIncrease ==
    \A topic \in DOMAIN partitions :
        \A i, j \in 1..Len(partitions[topic]) :
            i < j => partitions[topic][i].id < partitions[topic][j].id

\* Two partitions have started new segments in turn: one of them holds
\* segments whose ids are not consecutive.
C32_InterleavedRotation ==
    \E topic \in DOMAIN partitions :
        \E i \in 1..(Len(partitions[topic]) - 1) :
            partitions[topic][i + 1].id > partitions[topic][i].id + 1

\* C33: after a fill the last segment of every partition has current_size
\* below max_size, and the segment a publish is appended to had current_size
\* below max_size before.
C33_TailSegmentBelowMaxSize ==
    \A topic \in DOMAIN partitions :
        partitions[topic][Len(partitions[topic])].current_size < MaxSegmentSize

\* The segment of a partition that holds a publish, and the offset of the
\* publish in it.
PositionOf(topic, publish) ==
    LET segments == partitions[topic]
        s == CHOOSE s \in 1..Len(segments) :
                \E k \in 1..Len(segments[s].packets) : segments[s].packets[k] = publish
        k == CHOOSE k \in 1..Len(segments[s].packets) : segments[s].packets[k] = publish
    IN  [index |-> s, segment_id |-> segments[s].id, log_offset |-> k - 1]

\* The publishes of a partition that follow a publish of it.
Following(topic, publish) ==
    LET all == Flatten(partitions[topic])
        i == CHOOSE i \in 1..Len(all) : all[i] = publish
    IN  SubSeq(all, i + 1, Len(all))

\* C34: the Messages that CommitLog::get returns hold at least one publish
\* and at most count, their segment_id and log_offset are those of the last
\* publish returned, and get with (segment_id, log_offset + 1) and any count
\* returns publishes that follow that one in the partition, in their
\* order and without skipping one, and at least one when one follows.
C34_GetReturnsResumableCursor ==
    (last.kind = "Get" /\ last.get.messages.some)
        => LET g == last.get
               m == g.messages
               final == m.packets[Len(m.packets)]
           IN  /\ m.packets # <<>>
               /\ Len(m.packets) <= g.count
               /\ m.segment_id = PositionOf(g.topic, final).segment_id
               /\ m.log_offset = PositionOf(g.topic, final).log_offset
               /\ \A count \in 1..BatchCount :
                     LET next == CommitLogGet(partitions, g.topic, m.segment_id,
                                              m.log_offset + 1, count)
                         following == Following(g.topic, final)
                     IN  /\ Len(next.packets) <= Len(following)
                         /\ next.packets = SubSeq(following, 1, Len(next.packets))
                         /\ following # <<>> => next.packets # <<>>

\* C37: CommitLog::get with the id of a segment that the partition holds
\* reads from that segment on: it returns what the loop over the segments
\* returns when it starts at the segment with that id.
C37_GetStartsAtSegmentWithId ==
    (last.kind = "Get" /\ last.get.topic \in DOMAIN partitions)
        => LET g == last.get
               segments == partitions[g.topic]
           IN  \A i \in 1..Len(segments) :
                  segments[i].id = g.segment_id
                     => g.messages = GetLoop(segments, i, g.log_offset, g.count, NoMessages)

(***************************************************************************)
(* The commit log under publishes that each fill a segment, on two topics  *)
(* that start new segments in turn, with calls of CommitLog::get between   *)
(* the publishes.                                                          *)
(***************************************************************************)
NextCommitLogRotate ==
    \/ /\ nconnects < 1
       /\ Connect(Publisher, TRUE, NoWill)
    \/ \E topic \in Topics :
          /\ npublishes < MaxLogPublishes
          /\ Publisher \in DOMAIN active_connections
          /\ Publish(Publisher, topic, 0, MaxSegmentSize)
    \/ \E topic \in Topics, segment_id \in 0..current_segment_id,
          log_offset \in 0..MaxSegmentSize, count \in 1..BatchCount :
          Get(topic, segment_id, log_offset, count)

SpecCommitLogRotate == Init /\ [][NextCommitLogRotate]_vars


NextActiveInactive ==
    \/ \E clean_session \in BOOLEAN :
          nconnects < MaxFanOutConnects /\ Connect(Subscriber, clean_session, NoWill)
    \/ Subscribe(Subscriber, <<"a", "c">>, 0)
    \/ Disconnect(Subscriber)
    \/ Receive(Subscriber)
    \/ \E clean_session \in BOOLEAN :
          router_rs.nconnects < MaxFanOutConnects /\ Connect_router_rs(Subscriber, clean_session)
    \/ /\ router_rs.nsubscribes < 1
       /\ Subscribe_router_rs(Subscriber, <<"a", "c">>, 1)
    \/ /\ Len(router_rs.published) < MaxSessionPublishes
       /\ Publish_router_rs(Subscriber, <<"a", "c">>, FALSE, 1)
    \/ Route_router_rs

SpecActiveInactive == Init /\ [][NextActiveInactive]_vars


(***************************************************************************)
(* What a connection is subscribed to, over filters of three levels.       *)
(***************************************************************************)
CoverLevels == {"a", "b", "c"}
CoverTopics == {<<x, y, z>> : x \in CoverLevels, y \in CoverLevels, z \in CoverLevels}
CoverFilters == {<<"a", "+", "+">>, <<"+", "b", "+">>, <<"a", "b", "+">>, <<"a", "b", "c">>}

\* The topics that some filter of the connection's two maps matches.
Covered(connection) ==
    {topic \in CoverTopics : \E f \in SubscribedFilters(connection) : matches(topic, f)}

\* C38: after a Subscribe of filter F is applied to a connection, the
\* filters of its two maps match every topic that F matches and every topic
\* that a filter it held before matched.
C38_SubscribeKeepsCoverage ==
    [][\A id \in ClientIds :
          SubscribeApplied(id) =>
             LET F == subscribes'[id][Len(subscribes'[id])].topic_path
             IN  /\ {topic \in CoverTopics : matches(topic, F)}
                        \subseteq Covered(active_connections'[id])
                 /\ Covered(active_connections[id]) \subseteq Covered(active_connections'[id])]_vars

\* One client that subscribes up to MaxCoverSubscribes times.
NextCoverage ==
    \/ nconnects < 1 /\ Connect(Subscriber, TRUE, NoWill)
    \/ \E filter \in CoverFilters, qos \in QoSLevels :
          /\ Len(subscribes[Subscriber]) < MaxCoverSubscribes
          /\ SubscribePacket(Subscriber, filter, qos)
    \/ Receive(Subscriber)

SpecCoverage == Init /\ [][NextCoverage]_vars


(***************************************************************************)
(* Packets of a client that is not in the active map.                      *)
(***************************************************************************)
\* C39: a Publish that reaches the router with a client id that is not a
\* key of the active map leaves the commit log as it was.
C39_InactivePublishNotLogged ==
    [][(last'.kind = "Publish" /\ last'.id \notin DOMAIN active_connections)
          => partitions' = partitions]_vars

\* One client whose publishes reach the router before it connects, while it
\* is connected and after it has disconnected or was evicted.
NextInbound ==
    \/ \E clean_session \in BOOLEAN :
          nconnects < MaxFanOutConnects /\ Connect(Publisher, clean_session, NoWill)
    \/ \E topic \in Topics :
          npublishes < MaxSessionPublishes /\ Publish(Publisher, topic, 0, 1)
    \/ Subscribe(Publisher, <<"a", "b">>, 0)
    \/ Disconnect(Publisher)
    \/ Receive(Publisher)

SpecInbound == Init /\ [][NextInbound]_vars


(***************************************************************************)
(* Publishes placed on a connection's outbound channel.                    *)
(***************************************************************************)
\* C40: while a connection stays active no publish is placed on its
\* outbound channel a second time.
C40_PlacedOnce ==
    \A id \in DOMAIN active_connections :
       \A i, j \in 1..Len(delivered[id]) : i < j => delivered[id][i] # delivered[id][j]

====
